---- MODULE Spec2Model ----
(***************************************************************************)
(* Conflict detection and risk aggregation of the low-altitude route      *)
(* analysis back end: NTSCCalculator (ntsc_calculator),                   *)
(* EnhancedRouteAnalyzer (enhanced_route_analyzer), AirspaceCapacityAnalyzer*)
(* (airspace_capacity_analyzer, airspace_capacity) and RouteOptimizer      *)
(* (route_optimizer).                                                      *)
(*                                                                         *)
(* Units and number representation                                         *)
(*  - Times of flight segments are integers counting ticks of 1/3 s, so    *)
(*    that an overlap shorter than the 1 s sampling step exists; the       *)
(*    step time_step = 1.0 s is 3 ticks.                                   *)
(*  - All points lie on one meridian (one longitude).  For two points of   *)
(*    equal longitude the haversine formula reduces to R * |dphi|, so a    *)
(*    latitude is given as the arc length in metres from a reference      *)
(*    parallel and the great-circle distance is the absolute difference.   *)
(*  - The code computes in floating point; the model computes the same     *)
(*    quantities exactly, as fractions num/den with den > 0.  Distances    *)
(*    that the code obtains through math.sqrt are kept squared.            *)
(***************************************************************************)
EXTENDS Integers, Sequences, FiniteSets, TLC

VARIABLES
    pc,               \* position of the caller: "start" before the call, "done" after it
    flight_segments,  \* argument of NTSCCalculator.calculate_ntsc
    ntsc_result,      \* its return value (NoResult before the call returns)
    ntsc_trace,       \* history: the segment pairs the call sampled, with every sample
    ntsc,             \* arguments of two calls of NTSCCalculator._get_safety_level
    safety_level,     \* their return values
    conflicts,        \* argument of EnhancedRouteAnalyzer._assess_overall_risk
    risk_assessment,  \* its return value
    severity_args,    \* arguments of two calls of _calculate_conflict_severity
    severity,         \* their return values
    routes,           \* argument of EnhancedRouteAnalyzer.analyze_route_conflicts
    report,           \* its return value
    interp_segment,   \* argument segment of NTSCCalculator._interpolate_position
    interp_time,      \* its argument time
    interp_position,  \* its return value
    airspace_params,  \* argument of AirspaceCapacityAnalyzer.calculate_capacity
    capacity_result,  \* its return value
    analyzer,         \* fields of the analyzer object shared by the concurrent calls
    given,            \* history - the input each thread passed to its call
    calls,            \* per thread - the call it runs, its input, its position and its return value
    frames,           \* the local variables of the calls
    perm_segments,    \* argument of a first call of calculate_ntsc
    perm_order,       \* the order in which a second call is given the same segments
    perm_results,     \* the return values of the two calls
    prob_routes,      \* argument routes of AirspaceCapacityAnalyzer.analyze_conflict_probability
    traffic_density,  \* its argument traffic_density
    conflict_probability,\* its return value
    safety_route,     \* route given to validate_route_safety
    safety_obstacles, \* obstacles given to validate_route_safety
    safety_assessment,\* what validate_route_safety returned or raised
    matrix_args,      \* arguments of generate_matrix_route
    matrix_route,     \* what generate_matrix_route returned or raised
    metrics_route,    \* route given to calculate_route_capacity
    metrics_width,    \* route_width given to calculate_route_capacity
    capacity_metrics, \* what calculate_route_capacity returned
    hav_points,       \* the points A, B given to _haversine_distance
    hav_distance,     \* what the calls for A, B and for B, A returned or raised
    split_given,      \* a segment, the time it is split at, and a segment of another aircraft
    split_results,    \* what calculate_ntsc returned for the whole and for the split segment
    sampling_window,  \* overlap_start and overlap_end of one segment pair, floats
    sampling_t,       \* t of the while loop of _calculate_conflict_duration, a float
    sampling_count    \* the number of iterations of the loop so far

ntsc_vars == <<flight_segments, ntsc_result, ntsc_trace>>
level_vars == <<ntsc, safety_level>>
risk_vars == <<conflicts, risk_assessment>>
severity_vars == <<severity_args, severity>>
route_vars == <<routes, report>>
interp_vars == <<interp_segment, interp_time, interp_position>>
capacity_vars == <<airspace_params, capacity_result>>
thread_vars == <<analyzer, given, calls, frames>>
perm_vars == <<perm_segments, perm_order, perm_results>>
prob_vars == <<prob_routes, traffic_density, conflict_probability>>
safety_vars == <<safety_route, safety_obstacles, safety_assessment>>
matrix_vars == <<matrix_args, matrix_route>>
metrics_vars == <<metrics_route, metrics_width, capacity_metrics>>
hav_vars == <<hav_points, hav_distance>>
split_vars == <<split_given, split_results>>
sampling_vars == <<sampling_window, sampling_t, sampling_count>>

vars == <<pc, ntsc_vars, level_vars, risk_vars, severity_vars, route_vars, interp_vars, capacity_vars, thread_vars, perm_vars, prob_vars, safety_vars, matrix_vars, metrics_vars, hav_vars, split_vars, sampling_vars>>

NoResult == [raised |-> "pending"]

Abs(x) == IF x < 0 THEN -x ELSE x

(***************************************************************************)
(* Bounds and input domains                                                *)
(***************************************************************************)
MaxSegs == 2

AircraftIds == {"UAV-1", "UAV-2"}

\* <<start_time, end_time>> in ticks: a sub-step window, two overlapping
\* long windows, a window touching the first, and one disjoint from all.
TimeWindows == {<<0, 1>>, <<0, 4>>, <<1, 5>>, <<6, 7>>}

\* A point, a point 50 m north of it and a point 30 m above it.
Positions ==
    { [longitude |-> 0, latitude |-> 0, height |-> 100],
      [longitude |-> 0, latitude |-> 50, height |-> 100],
      [longitude |-> 0, latitude |-> 0, height |-> 130] }

FlightSegment ==
    { [start_time |-> w[1], end_time |-> w[2], start_pos |-> p, end_pos |-> q,
       aircraft_id |-> a] :
         w \in TimeWindows, p \in Positions, q \in Positions, a \in AircraftIds }

\* The sequences over S of length at most n.
SeqsUpTo(S, n) == UNION { [1..k -> S] : k \in 0..n }

(***************************************************************************)
(* NTSCCalculator                                                          *)
(***************************************************************************)
HORIZONTAL_SEPARATION == 50
VERTICAL_SEPARATION == 30
time_step == 3

\* float('inf'): the fraction with den = 0
Infinity == [sq |-> 1, den |-> 0]

\* _haversine_distance on one meridian: R * |radians(lat2 - lat1)|, with the
\* latitudes given as arc lengths in metres.
HaversineDistance(lat1, lon1, lat2, lon2) == Abs(lat2 - lat1)

\* _interpolate_position.  t_ratio = max(0, min(1, (time - start)/(end - start)))
\* is the fraction num/den with den = |end - start|; the returned coordinates
\* are numerators over den.  A segment with end_time = start_time divides by
\* zero.  (Exact arithmetic; InterpolatePositionFloat keeps the rounding.)
InterpolatePosition(segment, time) ==
    LET den == Abs(segment.end_time - segment.start_time)
        raw == IF segment.end_time < segment.start_time
               THEN segment.start_time - time ELSE time - segment.start_time
        num == IF raw > den THEN den ELSE IF raw < 0 THEN 0 ELSE raw
    IN IF den = 0 THEN [raised |-> "ZeroDivisionError"]
       ELSE [den |-> den,
             longitude |-> segment.start_pos.longitude * den
                           + num * (segment.end_pos.longitude - segment.start_pos.longitude),
             latitude |-> segment.start_pos.latitude * den
                          + num * (segment.end_pos.latitude - segment.start_pos.latitude),
             height |-> segment.start_pos.height * den
                        + num * (segment.end_pos.height - segment.start_pos.height)]

\* The separation test of one sample: distances are numerators over den.
InConflictLoose(horizontal_dist, vertical_dist, den) ==
    /\ horizontal_dist <= HORIZONTAL_SEPARATION * den
    /\ vertical_dist <= VERTICAL_SEPARATION * den

InConflict(horizontal_dist, vertical_dist, den) ==
    /\ horizontal_dist < HORIZONTAL_SEPARATION * den
    /\ vertical_dist < VERTICAL_SEPARATION * den

\* min(min_distance, total_distance) for distances [sq, den] = sqrt(sq)/den
\* of one segment pair (equal den).
MinDistance(min_distance, total_distance) ==
    IF min_distance.den = 0 THEN total_distance
    ELSE IF total_distance.sq < min_distance.sq THEN total_distance
    ELSE min_distance

\* min_distance taken over the in-conflict samples only
RecordSampleInConflictOnly(horizontal_dist, vertical_dist, den, t, acc) ==
    [conflict_duration |->
        IF InConflict(horizontal_dist, vertical_dist, den)
        THEN acc.conflict_duration + time_step
        ELSE acc.conflict_duration,
     min_distance |->
        IF InConflict(horizontal_dist, vertical_dist, den)
        THEN MinDistance(acc.min_distance,
                         [sq |-> horizontal_dist * horizontal_dist + vertical_dist * vertical_dist,
                          den |-> den])
        ELSE acc.min_distance,
     samples |-> Append(acc.samples,
                        [t |-> t, horizontal_dist |-> horizontal_dist,
                         vertical_dist |-> vertical_dist, den |-> den,
                         counted |-> InConflict(horizontal_dist, vertical_dist, den)])]

\* The end of one iteration of the while loop of _calculate_conflict_duration:
\* the distances of the sample at time t (numerators over den) are folded into
\* conflict_duration and min_distance.
RecordSample(horizontal_dist, vertical_dist, den, t, acc) ==
    [conflict_duration |->
        IF InConflict(horizontal_dist, vertical_dist, den)
        THEN acc.conflict_duration + time_step
        ELSE acc.conflict_duration,
     min_distance |->
        MinDistance(acc.min_distance,
                    [sq |-> horizontal_dist * horizontal_dist + vertical_dist * vertical_dist,
                     den |-> den]),
     samples |-> Append(acc.samples,
                        [t |-> t, horizontal_dist |-> horizontal_dist,
                         vertical_dist |-> vertical_dist, den |-> den,
                         counted |-> InConflict(horizontal_dist, vertical_dist, den)])]

\* horizontal_dist and vertical_dist of two interpolated positions, brought to
\* the common denominator pos1.den * pos2.den.
MeasureSample(pos1, pos2, t, acc) ==
    RecordSample(HaversineDistance(pos1.latitude * pos2.den, pos1.longitude * pos2.den,
                                   pos2.latitude * pos1.den, pos2.longitude * pos1.den),
                 Abs(pos1.height * pos2.den - pos2.height * pos1.den),
                 pos1.den * pos2.den, t, acc)

\* One iteration of the while loop of _calculate_conflict_duration at time t.
SampleAt(seg1, seg2, t, acc) ==
    MeasureSample(InterpolatePosition(seg1, t), InterpolatePosition(seg2, t), t, acc)

\* The loop with one more sample, taken after overlap_end.
RECURSIVE SampleLoopPastEnd(_, _, _, _, _)
SampleLoopPastEnd(seg1, seg2, t, overlap_end, acc) ==
    IF t <= overlap_end + time_step
    THEN SampleLoopPastEnd(seg1, seg2, t + time_step, overlap_end, SampleAt(seg1, seg2, t, acc))
    ELSE acc

RECURSIVE SampleLoop(_, _, _, _, _)
SampleLoop(seg1, seg2, t, overlap_end, acc) ==
    IF t <= overlap_end
    THEN SampleLoop(seg1, seg2, t + time_step, overlap_end, SampleAt(seg1, seg2, t, acc))
    ELSE acc

\* _calculate_conflict_duration: (conflict_duration, min_distance), and the
\* samples taken.
CalculateConflictDuration(seg1, seg2, overlap_start, overlap_end) ==
    SampleLoop(seg1, seg2, overlap_start, overlap_end,
               [conflict_duration |-> 0, min_distance |-> Infinity, samples |-> <<>>])

\* The loop that adds up the segment durations, from segment k on.
RECURSIVE FlightTimeLoop(_, _, _)
FlightTimeLoop(segments, k, total_flight_time) ==
    IF k > Len(segments) THEN total_flight_time
    ELSE FlightTimeLoop(segments, k + 1,
                        total_flight_time + segments[k].end_time - segments[k].start_time)

\* "=" written for "+=": only the last segment's duration is kept.
LastDurationOnly(segments) ==
    IF segments = <<>> THEN 0
    ELSE segments[Len(segments)].end_time - segments[Len(segments)].start_time

TotalFlightTime(segments) == FlightTimeLoop(segments, 1, 0)

SameAircraftNever(seg1, seg2) == FALSE

SameAircraft(seg1, seg2) == seg1.aircraft_id = seg2.aircraft_id

TimesOverlapOrTouch(overlap_start, overlap_end) == overlap_start <= overlap_end

TimesOverlap(overlap_start, overlap_end) == overlap_start < overlap_end

Max(a, b) == IF a > b THEN a ELSE b
Min(a, b) == IF a < b THEN a ELSE b

\* The pair loop after _calculate_conflict_duration returned r: a detail is
\* appended when conflict_duration > 0.  acc holds conflict_time,
\* conflict_details and the history of sampled pairs.
RecordPair(seg1, seg2, i, j, overlap_start, overlap_end, r, acc) ==
    [conflict_time |->
        IF r.conflict_duration > 0 THEN acc.conflict_time + r.conflict_duration
        ELSE acc.conflict_time,
     conflict_details |->
        IF r.conflict_duration > 0
        THEN Append(acc.conflict_details,
                    [aircraft_pair |-> <<seg1.aircraft_id, seg2.aircraft_id>>,
                     duration |-> r.conflict_duration,
                     min_distance |-> r.min_distance,
                     time_range |-> <<overlap_start, overlap_end>>])
        ELSE acc.conflict_details,
     sampled |-> Append(acc.sampled,
                        [i |-> i, j |-> j, overlap_start |-> overlap_start,
                         overlap_end |-> overlap_end, samples |-> r.samples,
                         conflict_duration |-> r.conflict_duration])]

\* The pair loop from the overlap test on.
ExamineOverlap(seg1, seg2, i, j, overlap_start, overlap_end, acc) ==
    IF TimesOverlap(overlap_start, overlap_end)
    THEN RecordPair(seg1, seg2, i, j, overlap_start, overlap_end,
                    CalculateConflictDuration(seg1, seg2, overlap_start, overlap_end), acc)
    ELSE acc

\* overlap_start taken from the first segment alone
ExaminePairFirstStart(segments, i, j, acc) ==
    IF SameAircraft(segments[i], segments[j]) THEN acc
    ELSE ExamineOverlap(segments[i], segments[j], i, j,
                        segments[i].start_time,
                        Min(segments[i].end_time, segments[j].end_time), acc)

\* The body of the pair loop for segments i < j.
ExaminePair(segments, i, j, acc) ==
    IF SameAircraft(segments[i], segments[j]) THEN acc
    ELSE ExamineOverlap(segments[i], segments[j], i, j,
                        Max(segments[i].start_time, segments[j].start_time),
                        Min(segments[i].end_time, segments[j].end_time), acc)

\* for i in range(n): for j in range(i + 1, n), from the pair (i, j) on.
RECURSIVE PairLoop(_, _, _, _)
PairLoop(segments, i, j, acc) ==
    IF i > Len(segments) THEN acc
    ELSE IF j > Len(segments) THEN PairLoop(segments, i + 1, i + 2, acc)
    ELSE PairLoop(segments, i, j + 1, ExaminePair(segments, i, j, acc))

\* conflict_time / total_flight_time if total_flight_time > 0 else 0.
\* A fraction with den = 0 stands for the ZeroDivisionError of a division by 0.
NtscValueUnguarded(conflict_time, total_flight_time) ==
    [num |-> conflict_time, den |-> total_flight_time]

NtscValue(conflict_time, total_flight_time) ==
    IF total_flight_time > 0 THEN [num |-> conflict_time, den |-> total_flight_time]
    ELSE [num |-> 0, den |-> 1]

\* The bands of _get_safety_level, in hundredths.
ExcellentBelow == 1
GoodBelow == 5
AcceptableBelow == 10
WarningBelow == 20

\* ntsc < pct / 100 for ntsc = num/den
Below(value, pct) == value.num * 100 < pct * value.den

\* ntsc <= pct / 100
AtMost(value, pct) == value.num * 100 <= pct * value.den

\* "<=" written for "<" in every band.
GetSafetyLevelInclusive(value) ==
    IF AtMost(value, ExcellentBelow) THEN "EXCELLENT"
    ELSE IF AtMost(value, GoodBelow) THEN "GOOD"
    ELSE IF AtMost(value, AcceptableBelow) THEN "ACCEPTABLE"
    ELSE IF AtMost(value, WarningBelow) THEN "WARNING"
    ELSE "CRITICAL"

GetSafetyLevel(value) ==
    IF Below(value, ExcellentBelow) THEN "EXCELLENT"
    ELSE IF Below(value, GoodBelow) THEN "GOOD"
    ELSE IF Below(value, AcceptableBelow) THEN "ACCEPTABLE"
    ELSE IF Below(value, WarningBelow) THEN "WARNING"
    ELSE "CRITICAL"

\* The dictionary calculate_ntsc returns, with the history of the pair loop.
NtscReturn(total_flight_time, acc, value) ==
    [result |->
        IF value.den = 0 THEN [raised |-> "ZeroDivisionError"]
        ELSE [raised |-> "no",
              ntsc_value |-> value,
              conflict_percentage |-> [num |-> value.num * 100, den |-> value.den],
              total_flight_time |-> total_flight_time,
              total_conflict_time |-> acc.conflict_time,
              conflict_details |-> acc.conflict_details,
              safety_level |-> GetSafetyLevel(value)],
     sampled |-> acc.sampled]

NtscOfTotals(total_flight_time, acc) ==
    NtscReturn(total_flight_time, acc, NtscValue(acc.conflict_time, total_flight_time))

\* calculate_ntsc
CalculateNtscRun(segments) ==
    NtscOfTotals(TotalFlightTime(segments),
                 PairLoop(segments, 1, 2,
                          [conflict_time |-> 0, conflict_details |-> <<>>, sampled |-> <<>>]))

(***************************************************************************)
(* Specification of one call of calculate_ntsc                             *)
(***************************************************************************)
\* The values of the variables of an operation that is not called.
NtscIdle ==
    /\ flight_segments = <<>>
    /\ ntsc_result = NoResult
    /\ ntsc_trace = <<>>

LevelIdle ==
    /\ ntsc = <<>>
    /\ safety_level = <<>>

RiskIdle ==
    /\ conflicts = <<>>
    /\ risk_assessment = NoResult

SeverityIdle ==
    /\ severity_args = <<>>
    /\ severity = <<>>

RouteIdle ==
    /\ routes = <<>>
    /\ report = NoResult

InterpIdle ==
    /\ interp_segment = NoResult
    /\ interp_time = 0
    /\ interp_position = NoResult

CapacityIdle ==
    /\ airspace_params = NoResult
    /\ capacity_result = NoResult

ThreadIdle ==
    /\ analyzer = NoResult
    /\ given = <<>>
    /\ calls = <<>>
    /\ frames = <<>>

PermIdle ==
    /\ perm_segments = <<>>
    /\ perm_order = <<>>
    /\ perm_results = <<>>

ProbIdle ==
    /\ prob_routes = <<>>
    /\ traffic_density = 0
    /\ conflict_probability = NoResult

SafetyIdle ==
    /\ safety_route = <<>>
    /\ safety_obstacles = <<>>
    /\ safety_assessment = NoResult

MatrixIdle ==
    /\ matrix_args = <<>>
    /\ matrix_route = NoResult

MetricsIdle ==
    /\ metrics_route = <<>>
    /\ metrics_width = 0
    /\ capacity_metrics = NoResult

HavIdle ==
    /\ hav_points = <<>>
    /\ hav_distance = <<>>

SplitIdle ==
    /\ split_given = <<>>
    /\ split_results = <<>>

SamplingIdle ==
    /\ sampling_window = <<>>
    /\ sampling_t = <<>>
    /\ sampling_count = 0

Init ==
    /\ pc = "start"
    /\ flight_segments \in SeqsUpTo(FlightSegment, MaxSegs)
    /\ ntsc_result = NoResult
    /\ ntsc_trace = <<>>
    /\ LevelIdle /\ RiskIdle /\ SeverityIdle /\ RouteIdle /\ InterpIdle /\ CapacityIdle /\ ThreadIdle /\ PermIdle /\ ProbIdle /\ SafetyIdle /\ MatrixIdle /\ MetricsIdle /\ HavIdle /\ SplitIdle /\ SamplingIdle

CalculateNtsc ==
    /\ pc = "start"
    /\ pc' = "done"
    /\ ntsc_result' = CalculateNtscRun(flight_segments).result
    /\ ntsc_trace' = CalculateNtscRun(flight_segments).sampled
    /\ UNCHANGED <<flight_segments, level_vars, risk_vars, severity_vars, route_vars, interp_vars, capacity_vars, thread_vars, perm_vars, prob_vars, safety_vars, matrix_vars, metrics_vars, hav_vars, split_vars, sampling_vars>>

Next == CalculateNtsc

Spec == Init /\ [][Next]_vars

(***************************************************************************)
(* Properties of calculate_ntsc                                            *)
(***************************************************************************)
Done == pc = "done"

RECURSIVE SeqSum(_)
SeqSum(s) == IF s = <<>> THEN 0 ELSE Head(s) + SeqSum(Tail(s))

SumOfDurations(segments) ==
    SeqSum([k \in 1..Len(segments) |-> segments[k].end_time - segments[k].start_time])

Returned == Done /\ ntsc_result.raised = "no"

PairsBelow(n) == { p \in (1..n) \X (1..n) : p[1] < p[2] }

SegmentPairs == PairsBelow(Len(flight_segments))

SampledPairs == { <<ntsc_trace[k].i, ntsc_trace[k].j>> : k \in 1..Len(ntsc_trace) }

NoSampleCounted ==
    \A k \in 1..Len(ntsc_trace) :
        \A m \in 1..Len(ntsc_trace[k].samples) : ~ntsc_trace[k].samples[m].counted

\* C1: for every list of segments with end_time > start_time the returned
\* ntsc_value lies in [0, 1].
C1_NtscWithinUnitInterval ==
    (Returned /\ \A k \in 1..Len(flight_segments) :
                    flight_segments[k].end_time > flight_segments[k].start_time)
    => /\ 0 <= ntsc_result.ntsc_value.num
       /\ ntsc_result.ntsc_value.num <= ntsc_result.ntsc_value.den

\* C2: two segments of the same aircraft are never sampled, never produce a
\* conflict detail and never add to total_conflict_time: the conflict time is
\* the sum over the sampled pairs, all of which join different aircraft.
C2_NoSelfConflict ==
    Returned =>
        /\ \A p \in SampledPairs :
               flight_segments[p[1]].aircraft_id # flight_segments[p[2]].aircraft_id
        /\ \A k \in 1..Len(ntsc_result.conflict_details) :
               ntsc_result.conflict_details[k].aircraft_pair[1]
                   # ntsc_result.conflict_details[k].aircraft_pair[2]
        /\ Len(ntsc_result.conflict_details) <= Len(ntsc_trace)
        /\ ntsc_result.total_conflict_time
               = SeqSum([k \in 1..Len(ntsc_trace) |-> ntsc_trace[k].conflict_duration])

\* Two segments of one aircraft, with the same time window and the same
\* positions, and an empty report.
C2_Witness ==
    /\ Returned
    /\ \E p \in SegmentPairs :
          /\ flight_segments[p[1]] = flight_segments[p[2]]
          /\ flight_segments[p[1]].start_pos = flight_segments[p[1]].end_pos
    /\ ntsc_result.conflict_details = <<>>
    /\ ntsc_result.total_conflict_time = 0

NoTemporalOverlap(seg1, seg2) ==
    Max(seg1.start_time, seg2.start_time) >= Min(seg1.end_time, seg2.end_time)

\* C3: a pair of segments whose time ranges are disjoint or only touch is
\* never sampled and produces no conflict detail.
C3_NoOverlapNoEvent ==
    Returned =>
        /\ \A p \in SampledPairs :
               ~NoTemporalOverlap(flight_segments[p[1]], flight_segments[p[2]])
        /\ \A k \in 1..Len(ntsc_result.conflict_details) :
               ntsc_result.conflict_details[k].time_range[1]
                   < ntsc_result.conflict_details[k].time_range[2]
        /\ (\A p \in SegmentPairs :
                NoTemporalOverlap(flight_segments[p[1]], flight_segments[p[2]]))
           => ntsc_result.conflict_details = <<>>

\* Two aircraft at the same point at the instant their time ranges touch, and
\* nothing sampled.
C3_Witness ==
    /\ Returned
    /\ \E p \in SegmentPairs :
          LET seg1 == flight_segments[p[1]]
              seg2 == flight_segments[p[2]]
          IN /\ seg1.aircraft_id # seg2.aircraft_id
             /\ seg1.end_time = seg2.start_time
             /\ seg1.end_pos = seg2.start_pos
    /\ ntsc_trace = <<>>
    /\ ntsc_result.conflict_details = <<>>

CountedSamples(entry) ==
    Cardinality({ m \in 1..Len(entry.samples) : entry.samples[m].counted })

\* C4: a sample is counted exactly when horizontal distance < 50 and vertical
\* distance < 30, both strict, and each counted sample adds one step.
C4_ThresholdStrictness ==
    Returned =>
        \A k \in 1..Len(ntsc_trace) :
            /\ \A m \in 1..Len(ntsc_trace[k].samples) :
                   LET s == ntsc_trace[k].samples[m]
                   IN s.counted <=> (/\ s.horizontal_dist < 50 * s.den
                                     /\ s.vertical_dist < 30 * s.den)
            /\ ntsc_trace[k].conflict_duration = time_step * CountedSamples(ntsc_trace[k])

\* One pair with a counted sample strictly below both thresholds and a sample
\* at exactly 50 m horizontally that is not counted.
C4_Witness ==
    /\ Returned
    /\ \E k \in 1..Len(ntsc_trace) :
          /\ \E m \in 1..Len(ntsc_trace[k].samples) :
                LET s == ntsc_trace[k].samples[m]
                IN /\ s.counted
                   /\ 0 < s.horizontal_dist
                   /\ s.horizontal_dist < 50 * s.den
          /\ \E m \in 1..Len(ntsc_trace[k].samples) :
                LET s == ntsc_trace[k].samples[m]
                IN /\ ~s.counted
                   /\ s.horizontal_dist = 50 * s.den
                   /\ s.vertical_dist < 30 * s.den

\* C5: ntsc_value is 0, and nothing is raised, when the total flight time is
\* 0 (the empty list included); it is 0 when no sample is in conflict.
C5_ZeroNtsc ==
    Done =>
        /\ ntsc_result.raised = "no"
        /\ SumOfDurations(flight_segments) = 0 => ntsc_result.ntsc_value.num = 0
        /\ NoSampleCounted => ntsc_result.ntsc_value.num = 0

\* Two aircraft sampled during a common time range, never in conflict.
C5_Witness ==
    /\ Returned
    /\ ntsc_trace # <<>>
    /\ NoSampleCounted
    /\ ntsc_result.total_flight_time > 0
    /\ ntsc_result.ntsc_value.num = 0

\* C6: total_flight_time is the sum of the segment durations,
\* total_conflict_time the sum of the details' durations, and ntsc_value their
\* quotient when total_flight_time > 0.
C6_Totals ==
    Returned =>
        /\ ntsc_result.total_flight_time = SumOfDurations(flight_segments)
        /\ ntsc_result.total_conflict_time
               = SeqSum([k \in 1..Len(ntsc_result.conflict_details) |->
                            ntsc_result.conflict_details[k].duration])
        /\ ntsc_result.total_flight_time > 0
           => ntsc_result.ntsc_value.num * ntsc_result.total_flight_time
                  = ntsc_result.total_conflict_time * ntsc_result.ntsc_value.den

\* A conflict between two aircraft whose segments differ in duration.
C6_Witness ==
    /\ Returned
    /\ Len(flight_segments) >= 2
    /\ Len(ntsc_result.conflict_details) >= 1
    /\ flight_segments[1].end_time - flight_segments[1].start_time
           # flight_segments[2].end_time - flight_segments[2].start_time
    /\ ntsc_result.total_conflict_time > 0

(***************************************************************************)
(* Specification of _get_safety_level, called on two NTSC values           *)
(***************************************************************************)
MaxConflictTime == 21

\* Total flight times for which the band limits 0.01, 0.05, 0.1 and 0.2 are
\* values conflict_time / total_flight_time.
FlightTimes == {40, 100}

NtscValues ==
    { NtscValue(c, f) : c \in 0..MaxConflictTime, f \in FlightTimes }

InitSafetyLevel ==
    /\ pc = "start"
    /\ ntsc \in [1..2 -> NtscValues]
    /\ safety_level = <<>>
    /\ NtscIdle /\ RiskIdle /\ SeverityIdle /\ RouteIdle /\ InterpIdle /\ CapacityIdle /\ ThreadIdle /\ PermIdle /\ ProbIdle /\ SafetyIdle /\ MatrixIdle /\ MetricsIdle /\ HavIdle /\ SplitIdle /\ SamplingIdle

ApplyGetSafetyLevel ==
    /\ pc = "start"
    /\ pc' = "done"
    /\ safety_level' = [k \in 1..2 |-> GetSafetyLevel(ntsc[k])]
    /\ UNCHANGED <<ntsc, ntsc_vars, risk_vars, severity_vars, route_vars, interp_vars, capacity_vars, thread_vars, perm_vars, prob_vars, safety_vars, matrix_vars, metrics_vars, hav_vars, split_vars, sampling_vars>>

NextSafetyLevel == ApplyGetSafetyLevel

SpecSafetyLevel == InitSafetyLevel /\ [][NextSafetyLevel]_vars

LevelRank(level) ==
    CASE level = "EXCELLENT" -> 0
      [] level = "GOOD" -> 1
      [] level = "ACCEPTABLE" -> 2
      [] level = "WARNING" -> 3
      [] level = "CRITICAL" -> 4

\* C7: EXCELLENT iff ntsc < 0.01, GOOD iff 0.01 <= ntsc < 0.05, ACCEPTABLE iff
\* 0.05 <= ntsc < 0.1, WARNING iff 0.1 <= ntsc < 0.2, CRITICAL iff ntsc >= 0.2,
\* and the level never decreases when ntsc grows.
C7_SafetyBands ==
    Done =>
        /\ \A k \in 1..2 :
               LET n == ntsc[k].num
                   d == ntsc[k].den
                   level == safety_level[k]
               IN /\ level = "EXCELLENT" <=> 100 * n < d
                  /\ level = "GOOD" <=> (d <= 100 * n /\ 20 * n < d)
                  /\ level = "ACCEPTABLE" <=> (d <= 20 * n /\ 10 * n < d)
                  /\ level = "WARNING" <=> (d <= 10 * n /\ 5 * n < d)
                  /\ level = "CRITICAL" <=> d <= 5 * n
        /\ ntsc[1].num * ntsc[2].den <= ntsc[2].num * ntsc[1].den
           => LevelRank(safety_level[1]) <= LevelRank(safety_level[2])

\* The first value is exactly 0.05 and ACCEPTABLE, the second exactly 0.2 and
\* CRITICAL.
C7_Witness ==
    /\ Done
    /\ ntsc[1].num * 20 = ntsc[1].den
    /\ safety_level[1] = "ACCEPTABLE"
    /\ ntsc[2].num * 5 = ntsc[2].den
    /\ safety_level[2] = "CRITICAL"

(***************************************************************************)
(* EnhancedRouteAnalyzer._assess_overall_risk                              *)
(***************************************************************************)
Severities == {"CRITICAL", "HIGH", "MEDIUM", "LOW"}

CriticalWeight == 10
HighWeight == 5
UnacceptableAbove == 50
HighAbove == 30
MediumAbove == 10

\* sum(1 for c in conflicts if c["severity"] == level), from conflict k on
RECURSIVE CountLoop(_, _, _, _)
CountLoop(list, level, k, count) ==
    IF k > Len(list) THEN count
    ELSE CountLoop(list, level, k + 1,
                   IF list[k].severity = level THEN count + 1 ELSE count)

CountSeverity(list, level) == CountLoop(list, level, 1, 0)

\* ">=" written for ">" in every band.
RiskLevelInclusive(risk_score) ==
    IF risk_score >= UnacceptableAbove THEN "UNACCEPTABLE"
    ELSE IF risk_score >= HighAbove THEN "HIGH"
    ELSE IF risk_score >= MediumAbove THEN "MEDIUM"
    ELSE "LOW"

RiskLevel(risk_score) ==
    IF risk_score > UnacceptableAbove THEN "UNACCEPTABLE"
    ELSE IF risk_score > HighAbove THEN "HIGH"
    ELSE IF risk_score > MediumAbove THEN "MEDIUM"
    ELSE "LOW"

RiskOfCounts(critical_count, high_count, total) ==
    [level |-> RiskLevel(critical_count * CriticalWeight + high_count * HighWeight + total),
     score |-> critical_count * CriticalWeight + high_count * HighWeight + total,
     critical_conflicts |-> critical_count,
     high_conflicts |-> high_count]

AssessOverallRiskUnguarded(list) ==
    RiskOfCounts(CountSeverity(list, "CRITICAL"), CountSeverity(list, "HIGH"), Len(list))

AssessOverallRisk(list) ==
    IF list = <<>> THEN [level |-> "SAFE", score |-> 0]
    ELSE RiskOfCounts(CountSeverity(list, "CRITICAL"), CountSeverity(list, "HIGH"), Len(list))

(***************************************************************************)
(* Specification of one call of _assess_overall_risk                       *)
(***************************************************************************)
MaxConflicts == 6

\* _assess_overall_risk reads only the severity of a conflict.
ConflictsBySeverity == { [severity |-> level] : level \in Severities }

InitOverallRisk ==
    /\ pc = "start"
    /\ conflicts \in SeqsUpTo(ConflictsBySeverity, MaxConflicts)
    /\ risk_assessment = NoResult
    /\ NtscIdle /\ LevelIdle /\ SeverityIdle /\ RouteIdle /\ InterpIdle /\ CapacityIdle /\ ThreadIdle /\ PermIdle /\ ProbIdle /\ SafetyIdle /\ MatrixIdle /\ MetricsIdle /\ HavIdle /\ SplitIdle /\ SamplingIdle

ApplyAssessOverallRisk ==
    /\ pc = "start"
    /\ pc' = "done"
    /\ risk_assessment' = AssessOverallRisk(conflicts)
    /\ UNCHANGED <<conflicts, ntsc_vars, level_vars, severity_vars, route_vars, interp_vars, capacity_vars, thread_vars, perm_vars, prob_vars, safety_vars, matrix_vars, metrics_vars, hav_vars, split_vars, sampling_vars>>

NextOverallRisk == ApplyAssessOverallRisk

SpecOverallRisk == InitOverallRisk /\ [][NextOverallRisk]_vars

NumberOf(list, level) == Cardinality({ k \in 1..Len(list) : list[k].severity = level })

\* C8: score = 10 * (CRITICAL events) + 5 * (HIGH events) + (events); level is
\* SAFE iff the list is empty, LOW iff 1 <= score <= 10, MEDIUM iff
\* 10 < score <= 30, HIGH iff 30 < score <= 50, UNACCEPTABLE iff score > 50.
C8_OverallRisk ==
    Done =>
        LET score == risk_assessment.score
            level == risk_assessment.level
        IN /\ score = 10 * NumberOf(conflicts, "CRITICAL") + 5 * NumberOf(conflicts, "HIGH")
                       + Len(conflicts)
           /\ level = "SAFE" <=> conflicts = <<>>
           /\ level = "LOW" <=> (1 <= score /\ score <= 10)
           /\ level = "MEDIUM" <=> (10 < score /\ score <= 30)
           /\ level = "HIGH" <=> (30 < score /\ score <= 50)
           /\ level = "UNACCEPTABLE" <=> score > 50

\* Four CRITICAL events and one HIGH event: score exactly 50, level HIGH.
C8_Witness ==
    /\ Done
    /\ NumberOf(conflicts, "CRITICAL") = 4
    /\ NumberOf(conflicts, "HIGH") = 1
    /\ risk_assessment.score = 50
    /\ risk_assessment.level = "HIGH"

(***************************************************************************)
(* EnhancedRouteAnalyzer._calculate_conflict_severity                      *)
(* Waypoint times and time differences of the route analyzer are whole     *)
(* seconds.  A distance is sqrt(sq)/den, as for min_distance above.        *)
(***************************************************************************)
CriticalDistance == 20
CriticalTime == 10
HighDistance == 30
HighTime == 30
MediumDistance == 40
MediumTime == 45

\* distance < metres
DistanceBelow(distance, metres) ==
    distance.sq < metres * metres * distance.den * distance.den

\* ">" written for "<" in the time test of the HIGH band.
CalculateConflictSeverityReversed(distance, time_diff) ==
    IF DistanceBelow(distance, CriticalDistance) /\ time_diff < CriticalTime THEN "CRITICAL"
    ELSE IF DistanceBelow(distance, HighDistance) /\ time_diff > HighTime THEN "HIGH"
    ELSE IF DistanceBelow(distance, MediumDistance) /\ time_diff < MediumTime THEN "MEDIUM"
    ELSE "LOW"

CalculateConflictSeverity(distance, time_diff) ==
    IF DistanceBelow(distance, CriticalDistance) /\ time_diff < CriticalTime THEN "CRITICAL"
    ELSE IF DistanceBelow(distance, HighDistance) /\ time_diff < HighTime THEN "HIGH"
    ELSE IF DistanceBelow(distance, MediumDistance) /\ time_diff < MediumTime THEN "MEDIUM"
    ELSE "LOW"

(***************************************************************************)
(* Specification of _calculate_conflict_severity, called on two arguments  *)
(***************************************************************************)
MaxDistanceSteps == 9
MaxTimeSteps == 10

\* Distances 0, 5, ... m and time differences 0, 5, ... s: every band limit
\* and a value on either side of it.
SeverityArgs ==
    { [distance |-> [sq |-> (5 * d) * (5 * d), den |-> 1], time_diff |-> 5 * t] :
        d \in 0..MaxDistanceSteps, t \in 0..MaxTimeSteps }

InitSeverity ==
    /\ pc = "start"
    /\ severity_args \in [1..2 -> SeverityArgs]
    /\ severity = <<>>
    /\ NtscIdle /\ LevelIdle /\ RiskIdle /\ RouteIdle /\ InterpIdle /\ CapacityIdle /\ ThreadIdle /\ PermIdle /\ ProbIdle /\ SafetyIdle /\ MatrixIdle /\ MetricsIdle /\ HavIdle /\ SplitIdle /\ SamplingIdle

ApplyCalculateConflictSeverity ==
    /\ pc = "start"
    /\ pc' = "done"
    /\ severity' = [k \in 1..2 |->
                       CalculateConflictSeverity(severity_args[k].distance,
                                                 severity_args[k].time_diff)]
    /\ UNCHANGED <<severity_args, ntsc_vars, level_vars, risk_vars, route_vars, interp_vars, capacity_vars, thread_vars, perm_vars, prob_vars, safety_vars, matrix_vars, metrics_vars, hav_vars, split_vars, sampling_vars>>

NextSeverity == ApplyCalculateConflictSeverity

SpecSeverity == InitSeverity /\ [][NextSeverity]_vars

SeverityRank(level) ==
    CASE level = "LOW" -> 0
      [] level = "MEDIUM" -> 1
      [] level = "HIGH" -> 2
      [] level = "CRITICAL" -> 3

NotFarther ==
    /\ severity_args[2].distance.sq <= severity_args[1].distance.sq
    /\ severity_args[2].time_diff <= severity_args[1].time_diff

\* C9: for (d, t) and (d', t') with d' <= d and t' <= t, severity(d', t') is at
\* least as severe as severity(d, t).
C9_SeverityMonotonic ==
    (Done /\ NotFarther) => SeverityRank(severity[2]) >= SeverityRank(severity[1])

\* The second pair is closer in distance and in time and strictly more severe.
C9_Witness ==
    /\ Done
    /\ NotFarther
    /\ severity[1] = "MEDIUM"
    /\ severity[2] = "CRITICAL"

(***************************************************************************)
(* EnhancedRouteAnalyzer.analyze_route_conflicts                           *)
(***************************************************************************)
SAFETY_SEPARATION == 50
TimeWindow == 60

WithinHalfTimeWindow(time_diff) == 2 * time_diff < TimeWindow

\* "<=" written for "<"
WithinTimeWindowInclusive(time_diff) == time_diff <= TimeWindow

WithinTimeWindow(time_diff) == time_diff < TimeWindow

\* The conflict appended when total_distance < SAFETY_SEPARATION.  The indices
\* k1, k2 count from 1; enumerate() counts from 0.  A location coordinate is
\* the mean of two coordinates, the fraction num/den with den = 2.
RecordConflict(name1, name2, k1, k2, point1, point2, time_diff, total_distance, list) ==
    IF DistanceBelow(total_distance, SAFETY_SEPARATION)
    THEN Append(list,
                [route1 |-> name1,
                 route2 |-> name2,
                 point1_index |-> k1 - 1,
                 point2_index |-> k2 - 1,
                 time |-> point1.time,
                 distance |-> total_distance,
                 location |->
                     [longitude |-> [num |-> point1.longitude + point2.longitude, den |-> 2],
                      latitude |-> [num |-> point1.latitude + point2.latitude, den |-> 2],
                      height |-> [num |-> point1.height + point2.height, den |-> 2]],
                 severity |-> CalculateConflictSeverity(total_distance, time_diff)])
    ELSE list

\* total_distance = sqrt(horizontal_distance**2 + vertical_distance**2)
MeasureWaypoints(name1, name2, k1, k2, point1, point2, time_diff, horizontal_distance, vertical_distance, list) ==
    RecordConflict(name1, name2, k1, k2, point1, point2, time_diff,
                   [sq |-> horizontal_distance * horizontal_distance
                           + vertical_distance * vertical_distance,
                    den |-> 1],
                   list)

\* The body of the waypoint loops from the time window test on.
CheckWindow(name1, name2, k1, k2, point1, point2, time_diff, list) ==
    IF WithinTimeWindow(time_diff)
    THEN MeasureWaypoints(name1, name2, k1, k2, point1, point2, time_diff,
                          HaversineDistance(point1.latitude, point1.longitude,
                                            point2.latitude, point2.longitude),
                          Abs(point1.height - point2.height), list)
    ELSE list

\* The body of the waypoint loops for waypoint k1 of route i and k2 of route j.
CheckWaypoints(route_list, i, j, k1, k2, list) ==
    CheckWindow(route_list[i].name, route_list[j].name, k1, k2,
                route_list[i].path[k1], route_list[j].path[k2],
                Abs(route_list[i].path[k1].time - route_list[j].path[k2].time), list)

\* for k1, point1 in enumerate(route1): for k2, point2 in enumerate(route2)
RECURSIVE WaypointLoop(_, _, _, _, _, _)
WaypointLoop(route_list, i, j, k1, k2, list) ==
    IF k1 > Len(route_list[i].path) THEN list
    ELSE IF k2 > Len(route_list[j].path) THEN WaypointLoop(route_list, i, j, k1 + 1, 1, list)
    ELSE WaypointLoop(route_list, i, j, k1, k2 + 1,
                      CheckWaypoints(route_list, i, j, k1, k2, list))

\* for i in range(n): for j in range(i + 1, n)
RECURSIVE RoutePairLoop(_, _, _, _)
RoutePairLoop(route_list, i, j, list) ==
    IF i > Len(route_list) THEN list
    ELSE IF j > Len(route_list) THEN RoutePairLoop(route_list, i + 1, i + 2, list)
    ELSE RoutePairLoop(route_list, i, j + 1, WaypointLoop(route_list, i, j, 1, 1, list))

\* The assessment taken before any conflict was appended.
RouteReportStale(list) ==
    [total_conflicts |-> Len(list),
     conflicts |-> list,
     risk_assessment |-> AssessOverallRisk(<<>>)]

RouteReport(list) ==
    [total_conflicts |-> Len(list),
     conflicts |-> list,
     risk_assessment |-> AssessOverallRisk(list)]

AnalyzeRouteConflicts(route_list) == RouteReport(RoutePairLoop(route_list, 1, 2, <<>>))

(***************************************************************************)
(* Specification of one call of analyze_route_conflicts                    *)
(***************************************************************************)
MaxRoutes == 2

\* Numbers of waypoints of a route.
PathLengths == 0..2

\* A point, the points 20 m and 30 m north of it and the point 40 m above it:
\* the distances are 0, 10, 20, 30, 40, sqrt(2000) and exactly 50 m.
WaypointPositions ==
    { [longitude |-> 0, latitude |-> 0, height |-> 100],
      [longitude |-> 0, latitude |-> 20, height |-> 100],
      [longitude |-> 0, latitude |-> 30, height |-> 100],
      [longitude |-> 0, latitude |-> 0, height |-> 140] }

\* Time of the first waypoint of a route; the waypoints of a route follow each
\* other every 30 s, so that the times of two waypoints differ by 0, 15, 30,
\* 45 or 75 s.
StartTimes == {0, 45}

Waypoint(position, time) ==
    [longitude |-> position.longitude, latitude |-> position.latitude,
     height |-> position.height, time |-> time]

Paths ==
    UNION { { [k \in 1..n |-> Waypoint(positions[k], start + 30 * (k - 1))] :
                positions \in [1..n -> WaypointPositions], start \in StartTimes } :
            n \in PathLengths }

RouteName(k) == <<"Route", k>>

RouteLists ==
    { [k \in 1..Len(paths) |-> [name |-> RouteName(k), path |-> paths[k]]] :
        paths \in SeqsUpTo(Paths, MaxRoutes) }

InitRouteConflicts ==
    /\ pc = "start"
    /\ routes \in RouteLists
    /\ report = NoResult
    /\ NtscIdle /\ LevelIdle /\ RiskIdle /\ SeverityIdle /\ InterpIdle /\ CapacityIdle /\ ThreadIdle /\ PermIdle /\ ProbIdle /\ SafetyIdle /\ MatrixIdle /\ MetricsIdle /\ HavIdle /\ SplitIdle /\ SamplingIdle

ApplyAnalyzeRouteConflicts ==
    /\ pc = "start"
    /\ pc' = "done"
    /\ report' = AnalyzeRouteConflicts(routes)
    /\ UNCHANGED <<routes, ntsc_vars, level_vars, risk_vars, severity_vars, interp_vars, capacity_vars, thread_vars, perm_vars, prob_vars, safety_vars, matrix_vars, metrics_vars, hav_vars, split_vars, sampling_vars>>

NextRouteConflicts == ApplyAnalyzeRouteConflicts

SpecRouteConflicts == InitRouteConflicts /\ [][NextRouteConflicts]_vars

\* The waypoint pairs <<i, j, k1, k2>> of two different routes i < j.
WaypointPairs ==
    UNION { { <<p[1], p[2], k1, k2>> :
                k1 \in 1..Len(routes[p[1]].path), k2 \in 1..Len(routes[p[2]].path) } :
            p \in PairsBelow(Len(routes)) }

Point1(q) == routes[q[1]].path[q[3]]
Point2(q) == routes[q[2]].path[q[4]]

SamePlace(q) ==
    /\ Point1(q).longitude = Point2(q).longitude
    /\ Point1(q).latitude = Point2(q).latitude
    /\ Point1(q).height = Point2(q).height

TimeApart(q) == Abs(Point1(q).time - Point2(q).time)

\* The conflicts reported for the waypoint pair q.
ConflictsOf(q) ==
    { k \in 1..Len(report.conflicts) :
        /\ report.conflicts[k].route1 = routes[q[1]].name
        /\ report.conflicts[k].route2 = routes[q[2]].name
        /\ report.conflicts[k].point1_index = q[3] - 1
        /\ report.conflicts[k].point2_index = q[4] - 1 }

CloseAndSevere ==
    \E k \in 1..Len(report.conflicts) :
        /\ report.conflicts[k].distance.sq < 50 * 50
        /\ report.conflicts[k].severity \in {"CRITICAL", "HIGH"}

\* C10 as claimed: two routes with a waypoint each at the same place, the two
\* times less than 60 s apart, yield a conflict with distance < 50 m and
\* severity CRITICAL or HIGH.
C10_CrossingWithin60 ==
    (Done /\ \E q \in WaypointPairs : SamePlace(q) /\ TimeApart(q) < 60)
    => CloseAndSevere

\* C10 as amended: such a waypoint pair, less than 60 s apart, is reported as a
\* conflict of distance 0; the conflict is CRITICAL or HIGH when the times
\* are less than 30 s apart, and MEDIUM or LOW otherwise.
C10_CrossingReported ==
    Done =>
        \A q \in WaypointPairs :
            (SamePlace(q) /\ TimeApart(q) < 60) =>
                /\ ConflictsOf(q) # {}
                /\ \A k \in ConflictsOf(q) :
                       /\ report.conflicts[k].distance.sq = 0
                       /\ report.conflicts[k].severity \in {"CRITICAL", "HIGH"}
                              <=> TimeApart(q) < 30
                /\ TimeApart(q) < 30 => CloseAndSevere

\* Two routes through the same point 15 s apart, reported as a HIGH conflict.
C10_Witness ==
    /\ Done
    /\ \E q \in WaypointPairs :
          /\ SamePlace(q)
          /\ TimeApart(q) = 15
          /\ \E k \in ConflictsOf(q) : report.conflicts[k].severity = "HIGH"

SameLateral(q) ==
    /\ Point1(q).longitude = Point2(q).longitude
    /\ Point1(q).latitude = Point2(q).latitude

VerticalApart(q) == Abs(Point1(q).height - Point2(q).height)

\* C11: two routes at the same lateral position, every pair of their
\* waypoints more than VERTICAL_SEPARATION = 30 m apart vertically, yield
\* total_conflicts = 0.
C11_VerticalSeparationClears ==
    (/\ Done
     /\ Len(routes) = 2
     /\ WaypointPairs # {}
     /\ \A q \in WaypointPairs : SameLateral(q) /\ VerticalApart(q) > VERTICAL_SEPARATION)
    => report.total_conflicts = 0

(***************************************************************************)
(* _interpolate_position in floating point                                 *)
(*                                                                         *)
(* A Python float is a binary floating-point number with a 53 bit          *)
(* significand, and every operation rounds its exact result to the nearest *)
(* float, ties to even.  The model keeps that arithmetic with a significand*)
(* of MantissaBits bits and an unbounded exponent.  A float is the         *)
(* fraction num/den, den a power of two.                                   *)
(***************************************************************************)
MantissaBits == 3

RECURSIVE Pow2(_)
Pow2(n) == IF n = 0 THEN 1 ELSE 2 * Pow2(n - 1)

Rat(x) == [num |-> x, den |-> 1]

RatEq(a, b) == a.num * b.den = b.num * a.den
RatLess(a, b) == a.num * b.den < b.num * a.den

\* n/d >= 0 rounded to the nearest integer, ties to the even one
RoundHalfEven(n, d) ==
    IF 2 * (n % d) < d THEN n \div d
    ELSE IF 2 * (n % d) > d THEN (n \div d) + 1
    ELSE IF (n \div d) % 2 = 0 THEN n \div d
    ELSE (n \div d) + 1

\* (n/d) * (sn/sd), n/d > 0, rounded to MantissaBits significant bits: the
\* value is scaled into [2^(MantissaBits-1), 2^MantissaBits) and rounded there.
RECURSIVE RoundSignificand(_, _, _, _)
RoundSignificand(n, d, sn, sd) ==
    IF n < Pow2(MantissaBits - 1) * d THEN RoundSignificand(2 * n, d, sn, 2 * sd)
    ELSE IF n >= Pow2(MantissaBits) * d THEN RoundSignificand(n, 2 * d, 2 * sn, sd)
    ELSE [num |-> RoundHalfEven(n, d) * sn, den |-> sd]

Negate(a) == [num |-> -a.num, den |-> a.den]

\* The float nearest to the fraction num/den, den > 0.
Float(num, den) ==
    IF num = 0 THEN Rat(0)
    ELSE IF num < 0 THEN Negate(RoundSignificand(-num, den, 1, 1))
    ELSE RoundSignificand(num, den, 1, 1)

FloatAdd(a, b) == Float(a.num * b.den + b.num * a.den, a.den * b.den)
FloatSub(a, b) == Float(a.num * b.den - b.num * a.den, a.den * b.den)
FloatMul(a, b) == Float(a.num * b.num, a.den * b.den)
\* a / b for b # 0
FloatDiv(a, b) ==
    IF b.num < 0 THEN Float(-(a.num * b.den), a.den * (-b.num))
    ELSE Float(a.num * b.den, a.den * b.num)

\* max(0, min(1, t_ratio))
ClampRatio(t_ratio) ==
    IF RatLess(Rat(1), t_ratio) THEN Rat(1)
    ELSE IF RatLess(t_ratio, Rat(0)) THEN Rat(0)
    ELSE t_ratio

\* start + t_ratio * (end - start)
Lerp(start, end, t_ratio) ==
    FloatAdd(Rat(start), FloatMul(t_ratio, FloatSub(Rat(end), Rat(start))))

InterpolateAt(seg, t_ratio) ==
    [longitude |-> Lerp(seg.start_pos.longitude, seg.end_pos.longitude, t_ratio),
     latitude |-> Lerp(seg.start_pos.latitude, seg.end_pos.latitude, t_ratio),
     height |-> Lerp(seg.start_pos.height, seg.end_pos.height, t_ratio)]

InterpolateOver(seg, elapsed, duration) ==
    IF duration.num = 0 THEN [raised |-> "ZeroDivisionError"]
    ELSE InterpolateAt(seg, ClampRatio(FloatDiv(elapsed, duration)))

InterpolatePositionFloat(seg, t) ==
    InterpolateOver(seg, FloatSub(Rat(t), Rat(seg.start_time)),
                    FloatSub(Rat(seg.end_time), Rat(seg.start_time)))

(***************************************************************************)
(* Specification of one call of _interpolate_position                      *)
(***************************************************************************)
MaxTime == 7

\* <<start_time, end_time>>: two proper segments, a degenerate one and a
\* reversed one.
InterpWindows == {<<1, 5>>, <<2, 4>>, <<3, 3>>, <<5, 2>>}

\* Three points that differ in every coordinate; every coordinate is a float
\* of MantissaBits bits (40 = 5 * 2^3, 56 = 7 * 2^3, 20 = 5 * 2^2).
InterpPositions ==
    { [longitude |-> 0, latitude |-> 0, height |-> 5],
      [longitude |-> 6, latitude |-> 40, height |-> 56],
      [longitude |-> 3, latitude |-> 7, height |-> 20] }

InterpSegments ==
    { [start_time |-> w[1], end_time |-> w[2], start_pos |-> p1, end_pos |-> p2,
       aircraft_id |-> "UAV-1"] :
        w \in InterpWindows, p1 \in InterpPositions, p2 \in InterpPositions }

InitInterpolate ==
    /\ pc = "start"
    /\ interp_segment \in InterpSegments
    /\ interp_time \in 0..MaxTime
    /\ interp_position = NoResult
    /\ NtscIdle /\ LevelIdle /\ RiskIdle /\ SeverityIdle /\ RouteIdle /\ CapacityIdle /\ ThreadIdle /\ PermIdle /\ ProbIdle /\ SafetyIdle /\ MatrixIdle /\ MetricsIdle /\ HavIdle /\ SplitIdle /\ SamplingIdle

ApplyInterpolatePosition ==
    /\ pc = "start"
    /\ pc' = "done"
    /\ interp_position' = InterpolatePositionFloat(interp_segment, interp_time)
    /\ UNCHANGED <<interp_segment, interp_time, ntsc_vars, level_vars, risk_vars, severity_vars, route_vars, capacity_vars, thread_vars, perm_vars, prob_vars, safety_vars, matrix_vars, metrics_vars, hav_vars, split_vars, sampling_vars>>

NextInterpolate == ApplyInterpolatePosition

SpecInterpolate == InitInterpolate /\ [][NextInterpolate]_vars

Returns(pos) == "height" \in DOMAIN pos

PositionIs(pos, point) ==
    /\ Returns(pos)
    /\ RatEq(pos.longitude, Rat(point.longitude))
    /\ RatEq(pos.latitude, Rat(point.latitude))
    /\ RatEq(pos.height, Rat(point.height))

Between(x, a, b) ==
    \/ ~RatLess(x, Rat(a)) /\ ~RatLess(Rat(b), x)
    \/ ~RatLess(x, Rat(b)) /\ ~RatLess(Rat(a), x)

PositionWithin(pos, p1, p2) ==
    /\ Returns(pos)
    /\ Between(pos.longitude, p1.longitude, p2.longitude)
    /\ Between(pos.latitude, p1.latitude, p2.latitude)
    /\ Between(pos.height, p1.height, p2.height)

\* C12: for a segment with end_time > start_time the interpolated position is
\* start_pos at and before start_time, end_pos at and after end_time, and
\* between the two, coordinate by coordinate, inside the range.
C12_InterpolationBoundary ==
    (Done /\ interp_segment.end_time > interp_segment.start_time) =>
        /\ interp_time <= interp_segment.start_time
               => PositionIs(interp_position, interp_segment.start_pos)
        /\ interp_time >= interp_segment.end_time
               => PositionIs(interp_position, interp_segment.end_pos)
        /\ PositionWithin(interp_position, interp_segment.start_pos, interp_segment.end_pos)

\* C13: for a segment with end_time = start_time the interpolator returns
\* start_pos for every query time.
C13_DegenerateReturnsStart ==
    (Done /\ interp_segment.end_time = interp_segment.start_time) =>
        PositionIs(interp_position, interp_segment.start_pos)

(***************************************************************************)
(* Specification of the engine: one call of either entry point,            *)
(* calculate_ntsc or analyze_route_conflicts                               *)
(***************************************************************************)
InitEngine == Init \/ InitRouteConflicts

NextEngine == CalculateNtsc \/ ApplyAnalyzeRouteConflicts

SpecEngine == InitEngine /\ [][NextEngine]_vars

NtscReturned == ntsc_result # NoResult
RoutesReturned == report # NoResult

ValidPoint(point) == point.height >= 0

BelowGround == [longitude |-> 0, latitude |-> 0, height |-> -10]

UncheckedSegments ==
    { [start_time |-> 0, end_time |-> 4, start_pos |-> p1, end_pos |-> p2,
       aircraft_id |-> a] :
        p1 \in Positions \cup {BelowGround}, p2 \in Positions \cup {BelowGround},
        a \in AircraftIds }

UncheckedRouteLists ==
    { [k \in 1..Len(points) |->
          [name |-> RouteName(k), path |-> <<Waypoint(points[k], 0)>>]] :
        points \in SeqsUpTo(WaypointPositions \cup {BelowGround}, MaxRoutes) }

InitUnchecked ==
    /\ pc = "start"
    /\ \/ /\ flight_segments \in SeqsUpTo(UncheckedSegments, MaxSegs)
          /\ routes = <<>>
       \/ /\ flight_segments = <<>>
          /\ routes \in UncheckedRouteLists
    /\ ntsc_result = NoResult
    /\ ntsc_trace = <<>>
    /\ report = NoResult
    /\ LevelIdle /\ RiskIdle /\ SeverityIdle /\ InterpIdle /\ CapacityIdle /\ ThreadIdle /\ PermIdle /\ ProbIdle /\ SafetyIdle /\ MatrixIdle /\ MetricsIdle /\ HavIdle /\ SplitIdle /\ SamplingIdle

SpecUnchecked == InitUnchecked /\ [][NextEngine]_vars

InvalidSegmentGiven ==
    \E k \in 1..Len(flight_segments) :
        ~ValidPoint(flight_segments[k].start_pos) \/ ~ValidPoint(flight_segments[k].end_pos)

InvalidWaypointGiven ==
    \E k \in 1..Len(routes) : \E w \in 1..Len(routes[k].path) :
        ~ValidPoint(routes[k].path[w])

\* C15: a call whose input contains an invalid point (here: a negative
\* height) is rejected with an error; no report is returned for it.
C15_ValidateThenCompute ==
    /\ (NtscReturned /\ InvalidSegmentGiven) => ntsc_result.raised # "no"
    /\ (RoutesReturned /\ InvalidWaypointGiven) => "total_conflicts" \notin DOMAIN report

(***************************************************************************)
(* AirspaceCapacityAnalyzer.calculate_capacity (airspace_capacity_analyzer)*)
(*                                                                         *)
(* Lengths are whole metres, speeds whole km/h.  Quotients the code keeps  *)
(* as floats are fractions num/den; int() of a non-negative quotient is    *)
(* the integer division.                                                   *)
(***************************************************************************)
SEPARATION_STANDARDS ==
    [VFR |-> [longitudinal |-> 100, lateral |-> 50, vertical |-> 30],
     IFR |-> [longitudinal |-> 200, lateral |-> 100, vertical |-> 50]]

aircraft_length == 10

\* _calculate_physical_capacity
PhysicalOf(length, width, height_diff, longitudinal_capacity, lateral_capacity, vertical_capacity) ==
    [total |-> longitudinal_capacity * lateral_capacity * vertical_capacity,
     longitudinal |-> longitudinal_capacity,
     lateral |-> lateral_capacity,
     vertical |-> vertical_capacity,
     dimensions |-> [length |-> length, width |-> width, height |-> height_diff]]

CalculatePhysicalCapacity(length, width, height_range, separation) ==
    PhysicalOf(length, width, height_range[2] - height_range[1],
               length \div (separation.longitudinal + aircraft_length),
               Max(1, width \div separation.lateral),
               Max(1, (height_range[2] - height_range[1]) \div separation.vertical))

\* controller_workload_factor 0.7, weather_factor 0.85, equipment_factor 0.9
DefaultFactors ==
    [controller_workload |-> [num |-> 7, den |-> 10],
     weather |-> [num |-> 85, den |-> 100],
     equipment |-> [num |-> 9, den |-> 10]]

\* _calculate_operational_capacity; operational / base_capacity divides by
\* base_capacity.
OperationalOf(base_capacity, operational, factors) ==
    IF base_capacity = 0 THEN [raised |-> "ZeroDivisionError"]
    ELSE [capacity |-> operational,
          reduction_rate |-> [num |-> base_capacity - operational, den |-> base_capacity],
          limiting_factors |-> factors]

CalculateOperationalCapacity(physical_capacity, factors) ==
    OperationalOf(physical_capacity.total,
                  (physical_capacity.total * factors.controller_workload.num
                       * factors.weather.num * factors.equipment.num)
                  \div (factors.controller_workload.den * factors.weather.den
                        * factors.equipment.den),
                  factors)

\* _calculate_dynamic_capacity from hourly_flow on.  flight_time is the
\* fraction route_length / (1000 * avg_speed) of an hour.
DynamicOf(hourly_flow, route_length, avg_speed) ==
    [hourly_flow |-> hourly_flow,
     quarter_flow |-> hourly_flow \div 4,
     avg_separation_time |->
         IF hourly_flow > 0 THEN [num |-> 3600, den |-> hourly_flow] ELSE [num |-> 0, den |-> 1],
     flight_time_minutes |-> [num |-> route_length * 60, den |-> 1000 * avg_speed]]

\* _calculate_dynamic_capacity; (route_length / 1000) / avg_speed divides by
\* avg_speed.  int(capacity / flight_time) if flight_time > 0 else 0
CalculateDynamicCapacity(capacity, route_length, avg_speed) ==
    IF avg_speed = 0 THEN [raised |-> "ZeroDivisionError"]
    ELSE DynamicOf(IF route_length * avg_speed > 0
                   THEN (capacity * 1000 * avg_speed) \div route_length ELSE 0,
                   route_length, avg_speed)

\* _get_time_factor, _get_day_factor, _get_season_factor: tenths
GetTimeFactor(hour) ==
    IF (7 <= hour /\ hour <= 9) \/ (17 <= hour /\ hour <= 19) THEN [num |-> 9, den |-> 10]
    ELSE IF 9 <= hour /\ hour <= 17 THEN [num |-> 7, den |-> 10]
    ELSE [num |-> 3, den |-> 10]

GetDayFactor(weekday) ==
    IF weekday < 5 THEN [num |-> 8, den |-> 10] ELSE [num |-> 5, den |-> 10]

GetSeasonFactor(month) ==
    IF month \in {3, 4, 5, 9, 10, 11} THEN [num |-> 9, den |-> 10]
    ELSE IF month \in {6, 7, 8} THEN [num |-> 8, den |-> 10]
    ELSE [num |-> 7, den |-> 10]

\* _get_utilization_factors
GetUtilizationFactors(params) ==
    [time_of_day |-> GetTimeFactor(params.hour),
     day_of_week |-> GetDayFactor(params.weekday),
     season |-> GetSeasonFactor(params.month),
     demand_level |-> params.demand_level]

\* _generate_recommendations: the set of the advices given
GenerateRecommendations(dynamic_capacity) ==
    (IF dynamic_capacity.hourly_flow < 20 THEN {"low capacity"} ELSE {})
    \cup (IF dynamic_capacity.avg_separation_time.num
                < 60 * dynamic_capacity.avg_separation_time.den
          THEN {"short separation time"} ELSE {})
    \cup (IF dynamic_capacity.flight_time_minutes.num
                > 30 * dynamic_capacity.flight_time_minutes.den
          THEN {"long route"} ELSE {})

Raised(x) == "raised" \in DOMAIN x

\* calculate_capacity, after the three capacities are computed
CapacityReturn(params, physical_capacity, operational_capacity, dynamic_capacity) ==
    IF Raised(dynamic_capacity) THEN dynamic_capacity
    ELSE [physical_capacity |-> physical_capacity,
          operational_capacity |-> operational_capacity,
          dynamic_capacity |-> dynamic_capacity,
          utilization_factors |-> GetUtilizationFactors(params),
          recommendations |-> GenerateRecommendations(dynamic_capacity)]

CapacityAfterOperational(params, physical_capacity, operational_capacity) ==
    IF Raised(operational_capacity) THEN operational_capacity
    ELSE CapacityReturn(params, physical_capacity, operational_capacity,
                        CalculateDynamicCapacity(operational_capacity.capacity,
                                                 params.length, params.avg_speed))

CapacityAfterPhysical(params, physical_capacity) ==
    CapacityAfterOperational(params, physical_capacity,
                             CalculateOperationalCapacity(physical_capacity, params.factors))

CalculateCapacity(params) ==
    CapacityAfterPhysical(params,
        CalculatePhysicalCapacity(params.length, params.width, params.height_range,
                                  SEPARATION_STANDARDS[params.flight_rules]))

(***************************************************************************)
(* Specification of one call of calculate_capacity                         *)
(***************************************************************************)
\* length: 0, below and at one longitudinal slot (110 m VFR), the default
Lengths == {0, 100, 110, 2000, 10000}
Widths == {0, 50, 2000}
HeightRanges == {<<120, 300>>, <<0, 0>>}
Speeds == {0, 25, 50}
Hours == {8, 12, 22}

AirspaceParams ==
    { [length |-> l, width |-> w, height_range |-> h, flight_rules |-> r,
       avg_speed |-> v, factors |-> DefaultFactors,
       hour |-> t, weekday |-> 3, month |-> 6, demand_level |-> [num |-> 6, den |-> 10]] :
        l \in Lengths, w \in Widths, h \in HeightRanges, r \in {"VFR", "IFR"},
        v \in Speeds, t \in Hours }

InitCapacity ==
    /\ pc = "start"
    /\ airspace_params \in AirspaceParams
    /\ capacity_result = NoResult
    /\ NtscIdle /\ LevelIdle /\ RiskIdle /\ SeverityIdle /\ RouteIdle /\ InterpIdle /\ ThreadIdle /\ PermIdle /\ ProbIdle /\ SafetyIdle /\ MatrixIdle /\ MetricsIdle /\ HavIdle /\ SplitIdle /\ SamplingIdle

ApplyCalculateCapacity ==
    /\ pc = "start"
    /\ pc' = "done"
    /\ capacity_result' = CalculateCapacity(airspace_params)
    /\ UNCHANGED <<airspace_params, ntsc_vars, level_vars, risk_vars, severity_vars, route_vars, interp_vars, thread_vars, perm_vars, prob_vars, safety_vars, matrix_vars, metrics_vars, hav_vars, split_vars, sampling_vars>>

NextCapacity == ApplyCalculateCapacity

SpecCapacity == InitCapacity /\ [][NextCapacity]_vars

\* C16: calculate_capacity never raises; hourly_flow, avg_separation_time and
\* reduction_rate are finite, and 0 where their denominator is 0.
C16_FlowRatesFinite ==
    Done =>
        /\ ~Raised(capacity_result)
        /\ capacity_result.operational_capacity.reduction_rate.den # 0
        /\ capacity_result.dynamic_capacity.avg_separation_time.den # 0
        /\ capacity_result.physical_capacity.total = 0
               => capacity_result.operational_capacity.reduction_rate.num = 0
        /\ (airspace_params.length = 0 \/ airspace_params.avg_speed = 0)
               => capacity_result.dynamic_capacity.hourly_flow = 0
        /\ capacity_result.dynamic_capacity.hourly_flow = 0
               => capacity_result.dynamic_capacity.avg_separation_time.num = 0

(***************************************************************************)
(* Two threads call the same method of one analyzer object concurrently.   *)
(* A thread runs its call one loop iteration at a time, and the iterations *)
(* of the two calls interleave in every order.  The locals of a call       *)
(* (total_flight_time, conflict_time, conflict_details; conflicts) live in *)
(* the frame of the call.                                                  *)
(***************************************************************************)
Threads == {1, 2}

\* The frame holding the locals of the call of a thread: its own.
SharedFrame(thread) == 1

FrameOf(thread) == thread

\* self.HORIZONTAL_SEPARATION, self.VERTICAL_SEPARATION; self.SAFETY_SEPARATION
AnalyzerFields ==
    [calculate_ntsc |->
        [HORIZONTAL_SEPARATION |-> HORIZONTAL_SEPARATION,
         VERTICAL_SEPARATION |-> VERTICAL_SEPARATION],
     analyze_route_conflicts |-> [SAFETY_SEPARATION |-> SAFETY_SEPARATION]]

\* Two aircraft at one point during [0, 4] and one of them 50 m away later.
ConcurrentSegments ==
    { [start_time |-> 0, end_time |-> 4, aircraft_id |-> "UAV-1",
       start_pos |-> [longitude |-> 0, latitude |-> 0, height |-> 100],
       end_pos |-> [longitude |-> 0, latitude |-> 0, height |-> 100]],
      [start_time |-> 0, end_time |-> 4, aircraft_id |-> "UAV-2",
       start_pos |-> [longitude |-> 0, latitude |-> 0, height |-> 100],
       end_pos |-> [longitude |-> 0, latitude |-> 0, height |-> 100]],
      [start_time |-> 1, end_time |-> 5, aircraft_id |-> "UAV-2",
       start_pos |-> [longitude |-> 0, latitude |-> 50, height |-> 100],
       end_pos |-> [longitude |-> 0, latitude |-> 50, height |-> 100]] }

\* One-waypoint routes at time 0: a point, 30 m north of it, 40 m above it.
ConcurrentPaths ==
    { <<Waypoint([longitude |-> 0, latitude |-> 0, height |-> 100], 0)>>,
      <<Waypoint([longitude |-> 0, latitude |-> 30, height |-> 100], 0)>>,
      <<Waypoint([longitude |-> 0, latitude |-> 0, height |-> 140], 0)>> }

ConcurrentInputs ==
    [calculate_ntsc |-> SeqsUpTo(ConcurrentSegments, 2),
     analyze_route_conflicts |->
        { [k \in 1..Len(paths) |-> [name |-> RouteName(k), path |-> paths[k]]] :
            paths \in SeqsUpTo(ConcurrentPaths, 2) }]

NewCall(method, input) ==
    [method |-> method, input |-> input, at |-> "start", k |-> 0, i |-> 0, j |-> 0,
     result |-> NoResult]

NoFrame == [total_flight_time |-> 0, acc |-> NoResult, conflicts |-> <<>>]

InitConcurrent ==
    /\ pc = "start"
    /\ analyzer = AnalyzerFields
    /\ \E method \in DOMAIN ConcurrentInputs :
           /\ given \in [Threads -> ConcurrentInputs[method]]
           /\ calls = [t \in Threads |-> NewCall(method, given[t])]
    /\ frames = [t \in Threads |-> NoFrame]
    /\ NtscIdle /\ LevelIdle /\ RiskIdle /\ SeverityIdle /\ RouteIdle /\ InterpIdle /\ CapacityIdle /\ PermIdle /\ ProbIdle /\ SafetyIdle /\ MatrixIdle /\ MetricsIdle /\ HavIdle /\ SplitIdle /\ SamplingIdle

\* total_flight_time = 0; conflict_time = 0; conflict_details = []  /
\* conflicts = []; n = len(routes)
BeginCall(t) ==
    /\ calls[t].at = "start"
    /\ frames' = [frames EXCEPT ![FrameOf(t)] =
                     [total_flight_time |-> 0,
                      acc |-> [conflict_time |-> 0, conflict_details |-> <<>>, sampled |-> <<>>],
                      conflicts |-> <<>>]]
    /\ calls' = [calls EXCEPT ![t].at = IF calls[t].method = "calculate_ntsc"
                                        THEN "flight_time" ELSE "pairs",
                              ![t].k = 1, ![t].i = 1, ![t].j = 2]
    /\ UNCHANGED <<pc, analyzer, given, ntsc_vars, level_vars, risk_vars, severity_vars, route_vars, interp_vars, capacity_vars, perm_vars, prob_vars, safety_vars, matrix_vars, metrics_vars, hav_vars, split_vars, sampling_vars>>

\* One iteration of: for segment in flight_segments: total_flight_time += ...
FlightTimeStep(t) ==
    /\ calls[t].at = "flight_time"
    /\ IF calls[t].k <= Len(calls[t].input)
       THEN /\ frames' = [frames EXCEPT ![FrameOf(t)].total_flight_time =
                              @ + calls[t].input[calls[t].k].end_time
                                - calls[t].input[calls[t].k].start_time]
            /\ calls' = [calls EXCEPT ![t].k = @ + 1]
       ELSE /\ calls' = [calls EXCEPT ![t].at = "pairs"]
            /\ UNCHANGED frames
    /\ UNCHANGED <<pc, analyzer, given, ntsc_vars, level_vars, risk_vars, severity_vars, route_vars, interp_vars, capacity_vars, perm_vars, prob_vars, safety_vars, matrix_vars, metrics_vars, hav_vars, split_vars, sampling_vars>>

\* The body of the pair loops for the pair (i, j) of the input of thread t.
PairBody(t, frame) ==
    IF calls[t].method = "calculate_ntsc"
    THEN [frame EXCEPT !.acc = ExaminePair(calls[t].input, calls[t].i, calls[t].j, frame.acc)]
    ELSE [frame EXCEPT !.conflicts =
              WaypointLoop(calls[t].input, calls[t].i, calls[t].j, 1, 1, frame.conflicts)]

\* One iteration of: for i in range(n): for j in range(i + 1, n)
PairStep(t) ==
    /\ calls[t].at = "pairs"
    /\ IF calls[t].i > Len(calls[t].input)
       THEN /\ calls' = [calls EXCEPT ![t].at = "return"]
            /\ UNCHANGED frames
       ELSE IF calls[t].j > Len(calls[t].input)
       THEN /\ calls' = [calls EXCEPT ![t].i = @ + 1, ![t].j = calls[t].i + 2]
            /\ UNCHANGED frames
       ELSE /\ frames' = [frames EXCEPT ![FrameOf(t)] = PairBody(t, frames[FrameOf(t)])]
            /\ calls' = [calls EXCEPT ![t].j = @ + 1]
    /\ UNCHANGED <<pc, analyzer, given, ntsc_vars, level_vars, risk_vars, severity_vars, route_vars, interp_vars, capacity_vars, perm_vars, prob_vars, safety_vars, matrix_vars, metrics_vars, hav_vars, split_vars, sampling_vars>>

\* The return statement of the call of thread t.
ReturnValue(t, frame) ==
    IF calls[t].method = "calculate_ntsc"
    THEN NtscOfTotals(frame.total_flight_time, frame.acc).result
    ELSE RouteReport(frame.conflicts)

ReturnCall(t) ==
    /\ calls[t].at = "return"
    /\ calls' = [calls EXCEPT ![t].at = "done",
                              ![t].result = ReturnValue(t, frames[FrameOf(t)])]
    /\ UNCHANGED <<pc, analyzer, given, frames, ntsc_vars, level_vars, risk_vars, severity_vars, route_vars, interp_vars, capacity_vars, perm_vars, prob_vars, safety_vars, matrix_vars, metrics_vars, hav_vars, split_vars, sampling_vars>>

NextConcurrent ==
    \E t \in Threads : BeginCall(t) \/ FlightTimeStep(t) \/ PairStep(t) \/ ReturnCall(t)

SpecConcurrent == InitConcurrent /\ [][NextConcurrent]_vars

\* What the call returns when it runs alone.
SequentialResult(method, input) ==
    IF method = "calculate_ntsc" THEN CalculateNtscRun(input).result
    ELSE AnalyzeRouteConflicts(input)

\* C17: under every interleaving of two calls on one analyzer object each
\* call returns what a sequential run on its own input returns, and neither
\* the fields of the analyzer nor the inputs are modified.
C17_ConcurrentCallsIndependent ==
    /\ analyzer = AnalyzerFields
    /\ \A t \in DOMAIN calls :
          /\ calls[t].input = given[t]
          /\ calls[t].at = "done"
                 => calls[t].result = SequentialResult(calls[t].method, given[t])

\* Thread 1 has returned a report with a conflict while thread 2, started
\* before, is in the middle of its pair loop on a different input.
C17_Witness ==
    /\ calls # <<>>
    /\ calls[1].at = "done"
    /\ calls[2].at = "pairs"
    /\ calls[2].j > 2
    /\ given[1] # given[2]
    /\ calls[1].method = "analyze_route_conflicts"
    /\ calls[1].result.total_conflicts > 0

(***************************************************************************)
(* calculate_ntsc with its sums and its quotient in floating point.        *)
(* Times are ticks of 1/3 s; the floats are seconds.  The geometry of the  *)
(* pair loop is exact as above: the result of a pair does not depend on    *)
(* the order of the list, the sum of the durations does.                   *)
(***************************************************************************)
\* The float nearest to a time given in ticks
FloatOfTicks(ticks) == Float(ticks, time_step)

\* for segment in flight_segments: total_flight_time += end_time - start_time
RECURSIVE FlightTimeLoopFloat(_, _, _)
FlightTimeLoopFloat(segments, k, total_flight_time) ==
    IF k > Len(segments) THEN total_flight_time
    ELSE FlightTimeLoopFloat(segments, k + 1,
             FloatAdd(total_flight_time,
                      FloatSub(FloatOfTicks(segments[k].end_time),
                               FloatOfTicks(segments[k].start_time))))

NtscValueFloat(conflict_time, total_flight_time) ==
    IF total_flight_time.num > 0 THEN FloatDiv(conflict_time, total_flight_time)
    ELSE Rat(0)

NtscReturnFloat(total_flight_time, conflict_time, conflict_details, value) ==
    [ntsc_value |-> value,
     conflict_percentage |-> FloatMul(value, Rat(100)),
     total_flight_time |-> total_flight_time,
     total_conflict_time |-> conflict_time,
     conflict_details |-> conflict_details,
     safety_level |-> GetSafetyLevel(value)]

NtscOfTotalsFloat(total_flight_time, conflict_time, conflict_details) ==
    NtscReturnFloat(total_flight_time, conflict_time, conflict_details,
                    NtscValueFloat(conflict_time, total_flight_time))

NtscOfLoopsFloat(total_flight_time, acc) ==
    NtscOfTotalsFloat(total_flight_time, FloatOfTicks(acc.conflict_time), acc.conflict_details)

CalculateNtscFloat(segments) ==
    NtscOfLoopsFloat(FlightTimeLoopFloat(segments, 1, Rat(0)),
                     PairLoop(segments, 1, 2,
                              [conflict_time |-> 0, conflict_details |-> <<>>, sampled |-> <<>>]))

(***************************************************************************)
(* Specification of two calls of calculate_ntsc on the same segments in    *)
(* two orders                                                              *)
(***************************************************************************)
MaxPermSegs == 3

\* Segments of 1 s and of 8 s at one point, in whole seconds (3 ticks).
PermSegments ==
    { [start_time |-> w[1], end_time |-> w[2], aircraft_id |-> w[3],
       start_pos |-> [longitude |-> 0, latitude |-> 0, height |-> 100],
       end_pos |-> [longitude |-> 0, latitude |-> 0, height |-> 100]] :
        w \in { <<0, 3, "UAV-1">>, <<0, 3, "UAV-2">>, <<0, 24, "UAV-2">>, <<3, 6, "UAV-1">> } }

Orders(n) ==
    { f \in [1..n -> 1..n] : \A a \in 1..n : \A b \in 1..n : f[a] = f[b] => a = b }

Permuted(segments, order) == [k \in 1..Len(segments) |-> segments[order[k]]]

InitPermutation ==
    /\ pc = "start"
    /\ perm_segments \in SeqsUpTo(PermSegments, MaxPermSegs)
    /\ perm_order \in Orders(Len(perm_segments))
    /\ perm_results = <<>>
    /\ NtscIdle /\ LevelIdle /\ RiskIdle /\ SeverityIdle /\ RouteIdle /\ InterpIdle /\ CapacityIdle /\ ThreadIdle /\ ProbIdle /\ SafetyIdle /\ MatrixIdle /\ MetricsIdle /\ HavIdle /\ SplitIdle /\ SamplingIdle

ApplyPermutedCalls ==
    /\ pc = "start"
    /\ pc' = "done"
    /\ perm_results' = <<CalculateNtscFloat(perm_segments),
                         CalculateNtscFloat(Permuted(perm_segments, perm_order))>>
    /\ UNCHANGED <<perm_segments, perm_order, ntsc_vars, level_vars, risk_vars, severity_vars, route_vars, interp_vars, capacity_vars, thread_vars, prob_vars, safety_vars, matrix_vars, metrics_vars, hav_vars, split_vars, sampling_vars>>

NextPermutation == ApplyPermutedCalls

SpecPermutation == InitPermutation /\ [][NextPermutation]_vars

\* A conflict detail with its aircraft pair unordered.
Unordered(detail) ==
    [aircraft_pair |-> {detail.aircraft_pair[1], detail.aircraft_pair[2]},
     duration |-> detail.duration,
     min_distance |-> detail.min_distance,
     time_range |-> detail.time_range]

CountOf(x, details) == Cardinality({ k \in 1..Len(details) : Unordered(details[k]) = x })

SameDetails(details1, details2) ==
    /\ Len(details1) = Len(details2)
    /\ \A k \in 1..Len(details1) :
           CountOf(Unordered(details1[k]), details1) = CountOf(Unordered(details1[k]), details2)

SameTotals(r1, r2) ==
    /\ RatEq(r1.total_flight_time, r2.total_flight_time)
    /\ RatEq(r1.ntsc_value, r2.ntsc_value)

\* All times are whole seconds and the durations add up to at most
\* 2^MantissaBits s: every partial sum is a float.
ExactlySummable(segments) ==
    /\ \A k \in 1..Len(segments) :
           segments[k].start_time % time_step = 0 /\ segments[k].end_time % time_step = 0
    /\ SumOfDurations(segments) <= time_step * Pow2(MantissaBits)

\* C18 as claimed: for every permutation of the segment list calculate_ntsc
\* returns the same total_flight_time, total_conflict_time and ntsc_value and
\* the same multiset of conflict details.
C18_PermutationSame ==
    Done =>
        /\ SameTotals(perm_results[1], perm_results[2])
        /\ RatEq(perm_results[1].total_conflict_time, perm_results[2].total_conflict_time)
        /\ SameDetails(perm_results[1].conflict_details, perm_results[2].conflict_details)

\* C18 as amended: total_conflict_time and the multiset of conflict details
\* are the same for every permutation; total_flight_time and ntsc_value are
\* the same when the durations add up without rounding.
C18_PermutationInvariant ==
    Done =>
        /\ RatEq(perm_results[1].total_conflict_time, perm_results[2].total_conflict_time)
        /\ SameDetails(perm_results[1].conflict_details, perm_results[2].conflict_details)
        /\ ExactlySummable(perm_segments) => SameTotals(perm_results[1], perm_results[2])

\* Three segments in another order: the details come in another order, with
\* the same content, and the totals agree.
C18_Witness ==
    /\ Done
    /\ Len(perm_segments) = 3
    /\ perm_order # <<1, 2, 3>>
    /\ Len(perm_results[1].conflict_details) >= 2
    /\ perm_results[1].conflict_details # perm_results[2].conflict_details
    /\ ExactlySummable(perm_segments)
    /\ SameTotals(perm_results[1], perm_results[2])

(***************************************************************************)
(* AirspaceCapacityAnalyzer.analyze_conflict_probability (airspace_capacity)*)
(* A route is a list of points; the probability is the fraction num/den.   *)
(***************************************************************************)
max_density == 10
IntersectionDistance == 100

\* The distance test of _find_route_intersections, with <= for <
CloseEnoughInclusive(point1, point2) ==
    HaversineDistance(point1.latitude, point1.longitude, point2.latitude, point2.longitude)
        <= IntersectionDistance

CloseEnough(point1, point2) ==
    HaversineDistance(point1.latitude, point1.longitude, point2.latitude, point2.longitude)
        < IntersectionDistance

\* The pairs <<point1, point2>> in the order of the loops
\* for point1 in routes[i]: for point2 in routes[j]
PointPairs(route1, route2) ==
    [n \in 1..(Len(route1) * Len(route2)) |->
        <<route1[((n - 1) \div Len(route2)) + 1], route2[((n - 1) % Len(route2)) + 1]>>]

ClosePair(pair) == CloseEnough(pair[1], pair[2])

\* The intersection appended for a pair closer than 100 m
Intersection(i, j, point1, point2) ==
    [route1 |-> i - 1,
     route2 |-> j - 1,
     location |->
         [longitude |-> [num |-> point1.longitude + point2.longitude, den |-> 2],
          latitude |-> [num |-> point1.latitude + point2.latitude, den |-> 2]]]

IntersectionsOf(i, j, close) ==
    [n \in 1..Len(close) |-> Intersection(i, j, close[n][1], close[n][2])]

\* The point loops for the routes i < j: the intersections they append
PointLoop(route_list, i, j) ==
    IntersectionsOf(i, j, SelectSeq(PointPairs(route_list[i], route_list[j]), ClosePair))

\* for i in range(len(routes)): for j in range(i + 1, len(routes))
RECURSIVE IntersectionLoop(_, _, _, _)
IntersectionLoop(route_list, i, j, intersections) ==
    IF i > Len(route_list) THEN intersections
    ELSE IF j > Len(route_list) THEN IntersectionLoop(route_list, i + 1, i + 2, intersections)
    ELSE IntersectionLoop(route_list, i, j + 1, intersections \o PointLoop(route_list, i, j))

FindRouteIntersections(route_list) == IntersectionLoop(route_list, 1, 2, <<>>)

\* min(base_conflict_rate * density_factor, 1.0) without the cap
CapProbabilityNot(num, den) == [num |-> num, den |-> den]

CapProbability(num, den) == IF num > den THEN [num |-> 1, den |-> 1] ELSE [num |-> num, den |-> den]

\* base_conflict_rate = len(intersections) * 0.01
\* density_factor = min(traffic_density / self.max_density, 1.0)
ProbabilityOf(intersections, density) ==
    CapProbability(Len(intersections) * Min(density, max_density), 100 * max_density)

AnalyzeConflictProbability(route_list, density) ==
    ProbabilityOf(FindRouteIntersections(route_list), density)

(***************************************************************************)
(* Specification of one call of analyze_conflict_probability               *)
(***************************************************************************)
MaxProbRoutes == 2

\* Points 0, 50, 100 and 300 m along a meridian.
ProbPoints ==
    { [longitude |-> 0, latitude |-> y, height |-> 100] : y \in {0, 50, 100, 300} }

\* A route through n points that move 1 m north from point to point.
DenseRoute(n) == [k \in 1..n |-> [longitude |-> 0, latitude |-> k, height |-> 100]]

\* Routes of up to two points, and dense routes of 10 and 11 points whose
\* 110 pairs are all closer than 100 m.
ProbRoutes == SeqsUpTo(ProbPoints, 2) \cup {DenseRoute(10), DenseRoute(11)}

Densities == {0, 5, 10, 20}

InitProbability ==
    /\ pc = "start"
    /\ prob_routes \in SeqsUpTo(ProbRoutes, MaxProbRoutes)
    /\ traffic_density \in Densities
    /\ conflict_probability = NoResult
    /\ NtscIdle /\ LevelIdle /\ RiskIdle /\ SeverityIdle /\ RouteIdle /\ InterpIdle /\ CapacityIdle /\ ThreadIdle /\ PermIdle /\ SafetyIdle /\ MatrixIdle /\ MetricsIdle /\ HavIdle /\ SplitIdle /\ SamplingIdle

ApplyAnalyzeConflictProbability ==
    /\ pc = "start"
    /\ pc' = "done"
    /\ conflict_probability' = AnalyzeConflictProbability(prob_routes, traffic_density)
    /\ UNCHANGED <<prob_routes, traffic_density, ntsc_vars, level_vars, risk_vars, severity_vars, route_vars, interp_vars, capacity_vars, thread_vars, perm_vars, safety_vars, matrix_vars, metrics_vars, hav_vars, split_vars, sampling_vars>>

NextProbability == ApplyAnalyzeConflictProbability

SpecProbability == InitProbability /\ [][NextProbability]_vars

\* The cross-route point pairs <<i, j, k1, k2>>, i < j, closer than 100 m.
ClosePairs ==
    UNION { { q \in {p[1]} \X {p[2]} \X (1..Len(prob_routes[p[1]])) \X (1..Len(prob_routes[p[2]])) :
                Abs(prob_routes[q[1]][q[3]].latitude - prob_routes[q[2]][q[4]].latitude) < 100 } :
            p \in PairsBelow(Len(prob_routes)) }

\* 0.01 * pairs * min(traffic_density / 10, 1), in thousandths
Thousandths == Cardinality(ClosePairs) * (IF traffic_density < 10 THEN traffic_density ELSE 10)

\* C19: the returned probability p satisfies 0 <= p <= 1 and is
\* min(0.01 * (number of cross-route point pairs closer than 100 m)
\*     * min(traffic_density / 10, 1), 1).
C19_ConflictProbability ==
    Done =>
        /\ conflict_probability.den > 0
        /\ 0 <= conflict_probability.num
        /\ conflict_probability.num <= conflict_probability.den
        /\ IF Thousandths >= 1000
           THEN conflict_probability.num = conflict_probability.den
           ELSE conflict_probability.num * 1000 = Thousandths * conflict_probability.den

\* 110 close pairs at density 20: 1.1 capped to 1.
C19_Witness ==
    /\ Done
    /\ Cardinality(ClosePairs) = 110
    /\ traffic_density = 20
    /\ conflict_probability.num = conflict_probability.den

(***************************************************************************)
(* RouteOptimizer.validate_route_safety (route_optimizer)                  *)
(*                                                                         *)
(* Longitudes and latitudes of this section are integers counting          *)
(* 1/111000 degree, the factor _point_to_line_distance multiplies by, so   *)
(* that its distances are whole metres.  Risks are exact fractions: a      *)
(* segment risk is an integer of hundredths.  math.exp is a table of its   *)
(* values, in thousandths, at the heights of SafetyHeights, and raises     *)
(* OverflowError where the double range ends.                              *)
(***************************************************************************)
UnitsPerDegree == 111000

\* n hundredths of a degree
Degrees(hundredths) == hundredths * (UnitsPerDegree \div 100)

\* math.exp(x) raises OverflowError for x > 709.78...; x = -height / 100
ExpRange == 70978

ExpOverflows(height) == -height > ExpRange

\* math.exp(-height / 100), in thousandths
HeightFactor(height) ==
    CASE height = 0 -> 1000
      [] height = 60 -> 549
      [] height = 120 -> 301

\* obstacle.get(key, 0)
GetOr0(obstacle, key) == IF key \in DOMAIN obstacle THEN obstacle[key] ELSE 0

\* metres
PointToLineDistance(point, line_start, line_end) ==
    Min(Abs(GetOr0(point, "longitude") - line_start.longitude) + Abs(GetOr0(point, "latitude") - line_start.latitude),
        Abs(GetOr0(point, "longitude") - line_end.longitude) + Abs(GetOr0(point, "latitude") - line_end.latitude))

\* hundredths: 0.2 below an average height of 50, 0.1 below 100
HeightRisk(point1, point2) ==
    IF point1.height + point2.height < 2 * 50 THEN 20
    ELSE IF point1.height + point2.height < 2 * 100 THEN 10
    ELSE 0

\* (50 - min_distance) / 50 * 0.5, in hundredths, for an obstacle closer than 50 m
ObstacleRisk(min_distance) == IF min_distance < 50 THEN 50 - min_distance ELSE 0

RECURSIVE ObstacleLoop(_, _, _, _, _)
ObstacleLoop(point1, point2, obstacles, k, risk) ==
    IF k > Len(obstacles) THEN risk
    ELSE ObstacleLoop(point1, point2, obstacles, k + 1, risk + ObstacleRisk(PointToLineDistance(obstacles[k], point1, point2)))

\* min(risk, 1.0) left out
UncappedSegmentRisk(point1, point2, obstacles) ==
    ObstacleLoop(point1, point2, obstacles, 1, HeightRisk(point1, point2))

\* hundredths
CalculateSegmentRisk(point1, point2, obstacles) ==
    Min(ObstacleLoop(point1, point2, obstacles, 1, HeightRisk(point1, point2)), 100)

InCityCentre(point) ==
    /\ Degrees(11332) <= point.longitude /\ point.longitude <= Degrees(11333)
    /\ Degrees(2311) <= point.latitude /\ point.latitude <= Degrees(2314)

\* tenths
PopulationDensity(point) == IF InCityCentre(point) THEN 8 ELSE 4

\* total_risk, in ten-thousandths
RECURSIVE GroundLoop(_, _, _)
GroundLoop(route, k, total_risk) ==
    IF k > Len(route) THEN total_risk
    ELSE GroundLoop(route, k + 1, total_risk + PopulationDensity(route[k]) * HeightFactor(route[k].height))

CalculateGroundRisk(route) ==
    IF \E k \in 1..Len(route) : ExpOverflows(route[k].height) THEN [raised |-> "OverflowError"]
    ELSE IF Len(route) = 0 THEN Rat(0)
    ELSE [num |-> GroundLoop(route, 1, 0), den |-> 10000 * Len(route)]

NewAssessment == [collision_risk |-> 0, safe_segments |-> <<>>, risk_segments |-> <<>>]

\* One pass of the segment loop; i counts from 0 as in the code, and
\* segment_risk < 0.3 is the safety threshold.
SegmentBody(assessment, i, segment_risk) ==
    [collision_risk |-> assessment.collision_risk + segment_risk,
     safe_segments |-> IF segment_risk < 30 THEN Append(assessment.safe_segments, i) ELSE assessment.safe_segments,
     risk_segments |-> IF segment_risk < 30 THEN assessment.risk_segments ELSE Append(assessment.risk_segments, i)]

RECURSIVE SegmentLoop(_, _, _, _)
SegmentLoop(route, obstacles, i, assessment) ==
    IF i >= Len(route) - 1 THEN assessment
    ELSE SegmentLoop(route, obstacles, i + 1, SegmentBody(assessment, i, CalculateSegmentRisk(route[i + 1], route[i + 2], obstacles)))

\* collision_risk /= (len(route) - 1), when len(route) > 1
AverageRisk(total, n) == IF n > 1 THEN [num |-> total, den |-> 100 * (n - 1)] ELSE Rat(total)

\* collision_risk * 0.6 + ground_risk * 0.4
TotalRisk(collision, ground) ==
    [num |-> 6 * collision.num * ground.den + 4 * ground.num * collision.den, den |-> 10 * collision.den * ground.den]

SafetyReturn(assessment, collision, ground) ==
    IF Raised(ground) THEN ground
    ELSE [collision_risk |-> collision,
          ground_risk |-> ground,
          total_risk |-> TotalRisk(collision, ground),
          safe_segments |-> assessment.safe_segments,
          risk_segments |-> assessment.risk_segments,
          is_safe |-> RatLess(TotalRisk(collision, ground), [num |-> 1, den |-> 2])]

SafetyAfterLoop(route, assessment) ==
    SafetyReturn(assessment, AverageRisk(assessment.collision_risk, Len(route)), CalculateGroundRisk(route))

ValidateRouteSafety(route, obstacles) ==
    SafetyAfterLoop(route, SegmentLoop(route, obstacles, 0, NewAssessment))

(***************************************************************************)
(* Specification of validate_route_safety on routes of up to               *)
(* MaxSafetyPoints waypoints and up to MaxObstacles obstacles              *)
(***************************************************************************)
MaxSafetyPoints == 3
MaxObstacles == 2

\* A height at which math.exp(-height / 100) leaves the double range.
DeepHeight == -70979

SafetyHeights == {0, 60, 120, DeepHeight}

\* Inside the city-centre box, and 0.2 degree east of it.
SafetyLongitudes == {Degrees(11332), Degrees(11352)}

SafetyPoints ==
    { [longitude |-> lon, latitude |-> Degrees(2311), height |-> h] : lon \in SafetyLongitudes, h \in SafetyHeights }

\* On the first longitude, 20 m east of it, and one without a latitude.
Obstacles ==
    { [longitude |-> Degrees(11332), latitude |-> Degrees(2311)],
      [longitude |-> Degrees(11332) + 20, latitude |-> Degrees(2311)],
      [longitude |-> Degrees(11332)] }

InitSafety ==
    /\ pc = "start"
    /\ safety_route \in SeqsUpTo(SafetyPoints, MaxSafetyPoints)
    /\ safety_obstacles \in SeqsUpTo(Obstacles, MaxObstacles)
    /\ safety_assessment = NoResult
    /\ NtscIdle /\ LevelIdle /\ RiskIdle /\ SeverityIdle /\ RouteIdle /\ InterpIdle /\ CapacityIdle /\ ThreadIdle /\ PermIdle /\ ProbIdle /\ MatrixIdle /\ MetricsIdle /\ HavIdle /\ SplitIdle /\ SamplingIdle

ApplyValidateRouteSafety ==
    /\ pc = "start"
    /\ pc' = "done"
    /\ safety_assessment' = ValidateRouteSafety(safety_route, safety_obstacles)
    /\ UNCHANGED <<safety_route, safety_obstacles, ntsc_vars, level_vars, risk_vars, severity_vars, route_vars, interp_vars, capacity_vars, thread_vars, perm_vars, prob_vars, matrix_vars, metrics_vars, hav_vars, split_vars, sampling_vars>>

NextSafety == ApplyValidateRouteSafety

SpecSafety == InitSafety /\ [][NextSafety]_vars

\* The sum of the risks of the first n segments, each clamped to [0, 1], in hundredths.
RECURSIVE ClampedRiskSum(_)
ClampedRiskSum(n) ==
    IF n = 0 THEN 0
    ELSE ClampedRiskSum(n - 1) + Max(0, Min(100, UncappedSegmentRisk(safety_route[n], safety_route[n + 1], safety_obstacles)))

\* collision_risk is in [0, 1], is the mean of the clamped segment risks, and
\* is 0 for a route of fewer than two waypoints.
CollisionRiskIsMean ==
    /\ safety_assessment.collision_risk.den > 0
    /\ 0 <= safety_assessment.collision_risk.num
    /\ safety_assessment.collision_risk.num <= safety_assessment.collision_risk.den
    /\ IF Len(safety_route) < 2
       THEN safety_assessment.collision_risk.num = 0
       ELSE safety_assessment.collision_risk.num * 100 * (Len(safety_route) - 1) = ClampedRiskSum(Len(safety_route) - 1) * safety_assessment.collision_risk.den

\* C20: for every route and every obstacle list validate_route_safety does
\* not raise, and returns a collision_risk in [0, 1] that is the mean of the
\* clamped segment risks (0 for fewer than two waypoints).
C20_RouteSafety ==
    Done => (~Raised(safety_assessment) /\ CollisionRiskIsMean)

\* Where validate_route_safety returns, collision_risk is as described.
ReturnedCollisionRisk ==
    (Done /\ ~Raised(safety_assessment)) => CollisionRiskIsMean

\* No waypoint lies so deep that math.exp overflows: the call returns.
ShallowRouteReturns ==
    (Done /\ \A k \in 1..Len(safety_route) : ~ExpOverflows(safety_route[k].height)) => ~Raised(safety_assessment)

\* The empty route returns, with all risks 0.
EmptyRouteReturned ==
    /\ Done
    /\ safety_route = <<>>
    /\ ~Raised(safety_assessment)
    /\ safety_assessment.collision_risk.num = 0

\* Two obstacles on a low segment: 0.2 + 0.5 + 0.5 is capped to 1.
CappedSegmentReturned ==
    /\ Done
    /\ Len(safety_route) = 2
    /\ UncappedSegmentRisk(safety_route[1], safety_route[2], safety_obstacles) > 100
    /\ ~Raised(safety_assessment)
    /\ safety_assessment.collision_risk.num = safety_assessment.collision_risk.den

(***************************************************************************)
(* RouteOptimizer.generate_matrix_route (route_optimizer)                  *)
(*                                                                         *)
(* Coordinates and grid_size are floats (fractions with MantissaBits       *)
(* significant bits); every arithmetic step rounds as the code's does.     *)
(***************************************************************************)
\* np.sign
Sign(x) == IF x.num > 0 THEN Rat(1) ELSE IF x.num < 0 THEN Rat(-1) ELSE Rat(0)

RatAbs(x) == [num |-> Abs(x.num), den |-> x.den]

\* int(x) for x >= 0
IntOf(x) == x.num \div x.den

\* int(abs(end - start) / grid_size) + 1
GridSteps(start, end, grid_size) == IntOf(FloatDiv(RatAbs(FloatSub(end, start)), grid_size)) + 1

\* start + i * grid_size * np.sign(end - start)
GridCoordinate(start, end, grid_size, i) ==
    FloatAdd(start, FloatMul(FloatMul(Float(i, 1), grid_size), Sign(FloatSub(end, start))))

\* range(0, lat_steps): the corner waypoint would be appended twice
LatitudeRangeFromZero(lat_steps) == [k \in 1..lat_steps |-> k - 1]

\* range(lon_steps)
LongitudeRange(lon_steps) == [k \in 1..lon_steps |-> k - 1]

\* range(1, lat_steps)
LatitudeRange(lat_steps) == [k \in 1..(lat_steps - 1) |-> k]

\* The first loop: waypoint i at time 60 * i, on the start latitude.
LongitudeLoop(start, end, grid_size, altitude, lon_steps) ==
    [k \in 1..lon_steps |->
        [longitude |-> GridCoordinate(start[1], end[1], grid_size, LongitudeRange(lon_steps)[k]),
         latitude |-> start[2],
         height |-> altitude,
         time |-> 60 * (k - 1)]]

\* The second loop: time_counter goes on from 60 * len(path), the longitude
\* is that of path[-1].
LatitudeLoop(start, end, grid_size, altitude, path, indices) ==
    [k \in 1..Len(indices) |->
        [longitude |-> path[Len(path)].longitude,
         latitude |-> GridCoordinate(start[2], end[2], grid_size, indices[k]),
         height |-> altitude,
         time |-> 60 * (Len(path) + k - 1)]]

\* return path
MatrixAfterLongitude(start, end, grid_size, altitude, path) ==
    [path |-> path \o LatitudeLoop(start, end, grid_size, altitude, path, LatitudeRange(GridSteps(start[2], end[2], grid_size)))]

GenerateMatrixRoute(start, end, grid_size, altitude) ==
    IF grid_size.num = 0 THEN [raised |-> "ZeroDivisionError"]
    ELSE MatrixAfterLongitude(start, end, grid_size, altitude, LongitudeLoop(start, end, grid_size, altitude, GridSteps(start[1], end[1], grid_size)))

(***************************************************************************)
(* Specification of generate_matrix_route on a grid of half units          *)
(***************************************************************************)
MaxHalfUnits == 7

Coordinates == { Float(k, 2) : k \in 0..MaxHalfUnits }

StartPoints == { <<Rat(0), Rat(0)>>, <<Rat(1), Float(1, 2)>>, <<Rat(3), Rat(1)>> }

EndPoints == Coordinates \X Coordinates

GridSizes == { Rat(0), Float(1, 2), Rat(1), Float(3, 2) }

Altitudes == {50, 120}

InitMatrix ==
    /\ pc = "start"
    /\ matrix_args \in [start : StartPoints, end : EndPoints, grid_size : GridSizes, altitude : Altitudes]
    /\ matrix_route = NoResult
    /\ NtscIdle /\ LevelIdle /\ RiskIdle /\ SeverityIdle /\ RouteIdle /\ InterpIdle /\ CapacityIdle /\ ThreadIdle /\ PermIdle /\ ProbIdle /\ SafetyIdle /\ MetricsIdle /\ HavIdle /\ SplitIdle /\ SamplingIdle

ApplyGenerateMatrixRoute ==
    /\ pc = "start"
    /\ pc' = "done"
    /\ matrix_route' = GenerateMatrixRoute(matrix_args.start, matrix_args.end, matrix_args.grid_size, matrix_args.altitude)
    /\ UNCHANGED <<matrix_args, ntsc_vars, level_vars, risk_vars, severity_vars, route_vars, interp_vars, capacity_vars, thread_vars, perm_vars, prob_vars, safety_vars, metrics_vars, hav_vars, split_vars, sampling_vars>>

NextMatrix == ApplyGenerateMatrixRoute

SpecMatrix == InitMatrix /\ [][NextMatrix]_vars

\* floor(|end - start| / grid_size)
MovesAlong(axis) ==
    IntOf(FloatDiv(RatAbs(FloatSub(matrix_args.end[axis], matrix_args.start[axis])), matrix_args.grid_size))

SameLongitude(k) == RatEq(matrix_route.path[k].longitude, matrix_route.path[k + 1].longitude)
SameLatitude(k) == RatEq(matrix_route.path[k].latitude, matrix_route.path[k + 1].latitude)

safety_separation == 50

\* km/h
AvgSpeed == 50

RECURSIVE RouteLengthLoop(_, _, _)
RouteLengthLoop(route, i, total_length) ==
    IF i > Len(route) - 1 THEN total_length
    ELSE RouteLengthLoop(route, i + 1, total_length + HaversineDistance(route[i].latitude, route[i].longitude, route[i + 1].latitude, route[i + 1].longitude))

\* _calculate_route_length, in metres
CalculateRouteLength(route) == RouteLengthLoop(route, 1, 0)

\* The aircraft length left out of the slot.
MaxAircraftCountNoLength(total_length) ==
    IF total_length > 0 THEN total_length \div safety_separation ELSE 0

\* int(total_length / (safety_separation + aircraft_length)) if total_length > 0
MaxAircraftCount(total_length) ==
    IF total_length > 0 THEN total_length \div (safety_separation + aircraft_length) ELSE 0

\* travel_time = (total_length / 1000) / avg_speed hours;
\* int(max_aircraft_count / travel_time) if total_length > 0 and travel_time > 0
ThroughputPerHour(total_length, max_aircraft_count) ==
    IF total_length > 0 THEN (max_aircraft_count * 1000 * AvgSpeed) \div total_length ELSE 0

\* route_area = (total_length / 1000) * (route_width / 1000);
\* int(max_density * route_area) if route_area > 0
DensityLimit(total_length, route_width) ==
    IF total_length * route_width > 0 THEN (max_density * total_length * route_width) \div (1000 * 1000) ELSE 0

CapacityMetrics(total_length, route_width) ==
    [max_aircraft_count |-> MaxAircraftCount(total_length),
     throughput_per_hour |-> ThroughputPerHour(total_length, MaxAircraftCount(total_length)),
     density_limit |-> DensityLimit(total_length, route_width),
     safety_factor |-> [num |-> 8, den |-> 10],
     route_length_km |-> [num |-> total_length, den |-> 1000]]

CalculateRouteCapacity(route, route_width) == CapacityMetrics(CalculateRouteLength(route), route_width)

(***************************************************************************)
(* Specification of calculate_route_capacity on routes of up to            *)
(* MaxMetricsPoints waypoints                                              *)
(***************************************************************************)
MaxMetricsPoints == 3

MetricsPoints ==
    { [longitude |-> 0, latitude |-> lat, height |-> 100] : lat \in {0, 30, 59, 60, 500, 100000} }

RouteWidths == {0, 100}

InitMetrics ==
    /\ pc = "start"
    /\ metrics_route \in SeqsUpTo(MetricsPoints, MaxMetricsPoints)
    /\ metrics_width \in RouteWidths
    /\ capacity_metrics = NoResult
    /\ NtscIdle /\ LevelIdle /\ RiskIdle /\ SeverityIdle /\ RouteIdle /\ InterpIdle /\ CapacityIdle /\ ThreadIdle /\ PermIdle /\ ProbIdle /\ SafetyIdle /\ MatrixIdle /\ HavIdle /\ SplitIdle /\ SamplingIdle

ApplyCalculateRouteCapacity ==
    /\ pc = "start"
    /\ pc' = "done"
    /\ capacity_metrics' = CalculateRouteCapacity(metrics_route, metrics_width)
    /\ UNCHANGED <<metrics_route, metrics_width, ntsc_vars, level_vars, risk_vars, severity_vars, route_vars, interp_vars, capacity_vars, thread_vars, perm_vars, prob_vars, safety_vars, matrix_vars, hav_vars, split_vars, sampling_vars>>

NextMetrics == ApplyCalculateRouteCapacity

SpecMetrics == InitMetrics /\ [][NextMetrics]_vars

\* The length of the route, summed independently of the loop, in metres.
RECURSIVE LengthOfFirst(_)
LengthOfFirst(n) ==
    IF n < 1 THEN 0
    ELSE LengthOfFirst(n - 1) + Abs(metrics_route[n + 1].latitude - metrics_route[n].latitude)

MetricsLength == LengthOfFirst(Len(metrics_route) - 1)

\* C22: max_aircraft_count is floor(route_length / (50 + 10)), positive from
\* 60 m on; route_length_km > 0 for a route of positive length; for an empty,
\* single-point or zero-length route max_aircraft_count, throughput_per_hour
\* and density_limit are 0, and nothing is raised.
C22_RouteCapacity ==
    Done =>
        /\ ~Raised(capacity_metrics)
        /\ capacity_metrics.max_aircraft_count * 60 <= MetricsLength
        /\ MetricsLength < (capacity_metrics.max_aircraft_count + 1) * 60
        /\ MetricsLength >= 60 => capacity_metrics.max_aircraft_count > 0
        /\ MetricsLength > 0 => capacity_metrics.route_length_km.num > 0 /\ capacity_metrics.route_length_km.den > 0
        /\ MetricsLength = 0 =>
              /\ capacity_metrics.max_aircraft_count = 0
              /\ capacity_metrics.throughput_per_hour = 0
              /\ capacity_metrics.density_limit = 0

\* A route of exactly 60 m holds one aircraft.
C22_Witness ==
    /\ Done
    /\ MetricsLength = 60
    /\ capacity_metrics.max_aircraft_count = 1
    /\ capacity_metrics.throughput_per_hour > 0

\* A two-point route of zero length: all three are 0.
C22_ZeroLengthWitness ==
    /\ Done
    /\ Len(metrics_route) = 2
    /\ MetricsLength = 0
    /\ capacity_metrics.max_aircraft_count = 0

(***************************************************************************)
(* Specification of analyze_route_conflicts on one more than MaxRoutes     *)
(* routes of at most one waypoint, whose names may coincide                *)
(***************************************************************************)
ShortPaths ==
    { <<>> } \cup { <<Waypoint(position, start)>> : position \in WaypointPositions, start \in StartTimes }

NamedRouteLists ==
    { [k \in 1..(MaxRoutes + 1) |-> [name |-> names[k], path |-> paths[k]]] :
        names \in [1..(MaxRoutes + 1) -> {RouteName(1), RouteName(2)}],
        paths \in [1..(MaxRoutes + 1) -> ShortPaths] }

InitNamedRoutes ==
    /\ pc = "start"
    /\ routes \in NamedRouteLists
    /\ report = NoResult
    /\ NtscIdle /\ LevelIdle /\ RiskIdle /\ SeverityIdle /\ InterpIdle /\ CapacityIdle /\ ThreadIdle /\ PermIdle /\ ProbIdle /\ SafetyIdle /\ MatrixIdle /\ MetricsIdle /\ HavIdle /\ SplitIdle /\ SamplingIdle

SpecNamedRoutes == InitNamedRoutes /\ [][NextRouteConflicts]_vars

\* The entry names route i as route1 and route j as route2, and its waypoint
\* indices and time are those of a waypoint pair of the two.
EntryOfPair(entry, i, j) ==
    /\ entry.route1 = routes[i].name
    /\ entry.route2 = routes[j].name
    /\ entry.point1_index + 1 \in DOMAIN routes[i].path
    /\ entry.point2_index + 1 \in DOMAIN routes[j].path
    /\ entry.time = routes[i].path[entry.point1_index + 1].time

\* C23: total_conflicts is the number of entries of conflicts, every entry
\* names two routes at positions i < j of the input list, and
\* risk_assessment is the overall assessment of that conflicts list.
C23_ReportConsistent ==
    Done =>
        /\ report.total_conflicts = Len(report.conflicts)
        /\ \A n \in 1..Len(report.conflicts) :
              \E p \in PairsBelow(Len(routes)) : EntryOfPair(report.conflicts[n], p[1], p[2])
        /\ report.risk_assessment = AssessOverallRisk(report.conflicts)

\* Three routes in one place at one time, the last two under one name: one
\* entry for each of the three pairs, and a risk above the lowest level.
C23_Witness ==
    /\ Done
    /\ Len(routes) = 3
    /\ routes[2].name = routes[3].name
    /\ report.total_conflicts = 3
    /\ report.conflicts[3].route1 = report.conflicts[3].route2
    /\ report.risk_assessment # AssessOverallRisk(<<>>)

(***************************************************************************)
(* _haversine_distance off the meridian (ntsc_calculator,                  *)
(* enhanced_route_analyzer)                                                *)
(*                                                                         *)
(* Latitudes and longitudes are whole degrees.  math.sin and math.cos      *)
(* return the float nearest to the value, taken from tables in millionths; *)
(* squares, products and the sum round.  Floats here have HaversineBits    *)
(* significant bits, the smallest significand at which the rounded sum a   *)
(* can pass 1 as it does in double precision.  The distance                *)
(* R * 2 * atan2(sqrt(a), sqrt(1 - a)) depends on a alone and grows with   *)
(* it from 0 at a = 0, so the model returns a in its place, as the field   *)
(* hav.                                                                    *)
(***************************************************************************)
HaversineBits == 5

RECURSIVE RoundSignificandAt(_, _, _, _, _)
RoundSignificandAt(bits, n, d, sn, sd) ==
    IF n < Pow2(bits - 1) * d THEN RoundSignificandAt(bits, 2 * n, d, sn, 2 * sd)
    ELSE IF n >= Pow2(bits) * d THEN RoundSignificandAt(bits, n, 2 * d, 2 * sn, sd)
    ELSE [num |-> RoundHalfEven(n, d) * sn, den |-> sd]

\* The float of HaversineBits bits nearest to num/den, den > 0.
HavFloat(num, den) ==
    IF num = 0 THEN Rat(0)
    ELSE IF num < 0 THEN Negate(RoundSignificandAt(HaversineBits, -num, den, 1, 1))
    ELSE RoundSignificandAt(HaversineBits, num, den, 1, 1)

HavAdd(a, b) == HavFloat(a.num * b.den + b.num * a.den, a.den * b.den)
HavMul(a, b) == HavFloat(a.num * b.num, a.den * b.den)

\* sin(delta / 2) for delta degrees, in millionths
SinHalfMillionths(delta) ==
    CASE delta = 0 -> 0
      [] delta = 15 -> 130526
      [] delta = 30 -> 258819
      [] delta = 45 -> 382683
      [] delta = 60 -> 500000
      [] delta = 75 -> 608761
      [] delta = 90 -> 707107
      [] delta = 180 -> 1000000

\* cos(lat) for lat degrees, in millionths
CosMillionths(lat) ==
    CASE lat = 0 -> 1000000
      [] lat = 30 -> 866025
      [] lat = 45 -> 707107

\* math.sin(math.radians(delta) / 2); sin is odd
SinHalf(delta) ==
    IF delta < 0 THEN Negate(HavFloat(SinHalfMillionths(-delta), 1000000))
    ELSE HavFloat(SinHalfMillionths(delta), 1000000)

\* math.cos(math.radians(lat)); cos is even
Cos(lat) == HavFloat(CosMillionths(Abs(lat)), 1000000)

\* c = 2 * atan2(sqrt(a), sqrt(1 - a)); return R * c.  math.sqrt raises
\* ValueError for 1 - a < 0.
HaversineOf(a) == IF RatLess(Rat(1), a) THEN [raised |-> "ValueError"] ELSE [hav |-> a]

\* a = sin(delta_phi / 2)**2 + cos(phi1) * cos(phi2) * sin(delta_lambda / 2)**2
HaversineA(lat1, lon1, lat2, lon2) ==
    HavAdd(HavMul(SinHalf(lat2 - lat1), SinHalf(lat2 - lat1)),
           HavMul(HavMul(Cos(lat1), Cos(lat2)), HavMul(SinHalf(lon2 - lon1), SinHalf(lon2 - lon1))))

HaversineFloat(lat1, lon1, lat2, lon2) == HaversineOf(HaversineA(lat1, lon1, lat2, lon2))

(***************************************************************************)
(* Specification of _haversine_distance called for A, B and for B, A       *)
(***************************************************************************)
HavLatitudes == {-45, -30, 0, 30, 45}
HavLongitudes == {0, 90, 180}

InitHaversine ==
    /\ pc = "start"
    /\ hav_points \in [latA : HavLatitudes, lonA : HavLongitudes, latB : HavLatitudes, lonB : HavLongitudes]
    /\ hav_distance = <<>>
    /\ NtscIdle /\ LevelIdle /\ RiskIdle /\ SeverityIdle /\ RouteIdle /\ InterpIdle /\ CapacityIdle /\ ThreadIdle /\ PermIdle /\ ProbIdle /\ SafetyIdle /\ MatrixIdle /\ MetricsIdle /\ SplitIdle /\ SamplingIdle

ApplyHaversineDistance ==
    /\ pc = "start"
    /\ pc' = "done"
    /\ hav_distance' = <<HaversineFloat(hav_points.latA, hav_points.lonA, hav_points.latB, hav_points.lonB),
                         HaversineFloat(hav_points.latB, hav_points.lonB, hav_points.latA, hav_points.lonA)>>
    /\ UNCHANGED <<hav_points, ntsc_vars, level_vars, risk_vars, severity_vars, route_vars, interp_vars, capacity_vars, thread_vars, perm_vars, prob_vars, safety_vars, matrix_vars, metrics_vars, split_vars, sampling_vars>>

NextHaversine == ApplyHaversineDistance

SpecHaversine == InitHaversine /\ [][NextHaversine]_vars

SamePoint == hav_points.latA = hav_points.latB /\ hav_points.lonA = hav_points.lonB

\* The two results are equal, not negative, and 0 for A = B.
SymmetricDistances ==
    /\ RatEq(hav_distance[1].hav, hav_distance[2].hav)
    /\ hav_distance[1].hav.num >= 0 /\ hav_distance[1].hav.den > 0
    /\ SamePoint => hav_distance[1].hav.num = 0

\* C24: for all A, B the distance from A to B is the distance from B to A,
\* is not negative, and is 0 for A = B.
C24_HaversineSymmetric ==
    Done => (~Raised(hav_distance[1]) /\ ~Raised(hav_distance[2]) /\ SymmetricDistances)

\* Where both calls return, the results are as described.
ReturnedDistancesSymmetric ==
    (Done /\ ~Raised(hav_distance[1]) /\ ~Raised(hav_distance[2])) => SymmetricDistances

\* A call raises exactly when the call with the points exchanged raises.
RaisesBothWays ==
    Done => (Raised(hav_distance[1]) <=> Raised(hav_distance[2]))

\* Antipodal points at latitudes 45 and -45: a rounds past 1.
AntipodalRaised ==
    /\ Done
    /\ hav_points.latA = 45 /\ hav_points.latB = -45
    /\ Raised(hav_distance[1])

(***************************************************************************)
(* Properties of the conflict details of calculate_ntsc                    *)
(***************************************************************************)
\* The squared 3D distance of a sample, over den * den.
SampleSq(sample) ==
    sample.horizontal_dist * sample.horizontal_dist + sample.vertical_dist * sample.vertical_dist

HasConflict(entry) == entry.conflict_duration > 0

\* The sampled pairs that were in conflict at some sampled instant, in the
\* order of the pair loop.
ConflictEntries == SelectSeq(ntsc_trace, HasConflict)

\* The pairs i < j of different aircraft with overlap_start < overlap_end.
OverlappingPairs ==
    { p \in SegmentPairs :
        /\ flight_segments[p[1]].aircraft_id # flight_segments[p[2]].aircraft_id
        /\ Max(flight_segments[p[1]].start_time, flight_segments[p[2]].start_time)
             < Min(flight_segments[p[1]].end_time, flight_segments[p[2]].end_time) }

\* The detail is the one of the sampled pair: its duration, the overlap as
\* time_range, and the least 3D distance of all samples of the pair.
DetailOfEntry(detail, entry) ==
    /\ detail.aircraft_pair = <<flight_segments[entry.i].aircraft_id, flight_segments[entry.j].aircraft_id>>
    /\ detail.duration = entry.conflict_duration
    /\ detail.time_range = <<Max(flight_segments[entry.i].start_time, flight_segments[entry.j].start_time),
                             Min(flight_segments[entry.i].end_time, flight_segments[entry.j].end_time)>>
    /\ \A m \in 1..Len(entry.samples) :
          /\ entry.samples[m].den = detail.min_distance.den
          /\ detail.min_distance.sq <= SampleSq(entry.samples[m])
    /\ \E m \in 1..Len(entry.samples) : detail.min_distance.sq = SampleSq(entry.samples[m])

\* C25: every pair of different aircraft with overlapStart < overlapEnd is
\* sampled, its conflict duration is the number of in-conflict samples times
\* the step, a detail is emitted exactly for the pairs with duration > 0, and
\* the detail carries the least 3D distance of all samples of the overlap and
\* the overlap as time_range.
C25_DetailPerPair ==
    Returned =>
        /\ SampledPairs = OverlappingPairs
        /\ Len(ntsc_trace) = Cardinality(OverlappingPairs)
        /\ \A k \in 1..Len(ntsc_trace) :
              ntsc_trace[k].conflict_duration = time_step * CountedSamples(ntsc_trace[k])
        /\ Len(ntsc_result.conflict_details) = Len(ConflictEntries)
        /\ \A n \in 1..Len(ConflictEntries) :
              DetailOfEntry(ntsc_result.conflict_details[n], ConflictEntries[n])

\* A pair in conflict at one sample whose least distance is that of another
\* sample, 30 m apart vertically and so not in conflict.
C25_Witness ==
    /\ Returned
    /\ Len(ntsc_result.conflict_details) = 1
    /\ \E m \in 1..Len(ConflictEntries[1].samples) :
          /\ ~ConflictEntries[1].samples[m].counted
          /\ SampleSq(ConflictEntries[1].samples[m]) = ntsc_result.conflict_details[1].min_distance.sq
    /\ \A m \in 1..Len(ConflictEntries[1].samples) :
          ConflictEntries[1].samples[m].counted
              => SampleSq(ConflictEntries[1].samples[m]) > ntsc_result.conflict_details[1].min_distance.sq

(***************************************************************************)
(* Specification of analyze_route_conflicts on two routes whose waypoint   *)
(* times differ by 0, 1, 59 or 60 s                                        *)
(***************************************************************************)
\* The positions of WaypointPositions and one 400 m north of the first.
StrictPositions ==
    WaypointPositions \cup { [longitude |-> 0, latitude |-> 400, height |-> 100] }

StrictTimes == {0, 59, 60}

StrictPaths ==
    UNION { [1..n -> { Waypoint(position, t) : position \in StrictPositions, t \in StrictTimes }] : n \in PathLengths }

StrictRouteLists ==
    { [k \in 1..2 |-> [name |-> RouteName(k), path |-> paths[k]]] : paths \in [1..2 -> StrictPaths] }

InitStrictRoutes ==
    /\ pc = "start"
    /\ routes \in StrictRouteLists
    /\ report = NoResult
    /\ NtscIdle /\ LevelIdle /\ RiskIdle /\ SeverityIdle /\ InterpIdle /\ CapacityIdle /\ ThreadIdle /\ PermIdle /\ ProbIdle /\ SafetyIdle /\ MatrixIdle /\ MetricsIdle /\ HavIdle /\ SplitIdle /\ SamplingIdle

SpecStrictRoutes == InitStrictRoutes /\ [][NextRouteConflicts]_vars

\* The square of the 3D distance of the waypoint pair q, in square metres.
SquareApart(q) ==
    (Point1(q).latitude - Point2(q).latitude) * (Point1(q).latitude - Point2(q).latitude)
    + (Point1(q).height - Point2(q).height) * (Point1(q).height - Point2(q).height)

\* The waypoint pairs less than 60 s and less than 50 m apart.
ExpectedConflicts ==
    { q \in WaypointPairs : TimeApart(q) < 60 /\ SquareApart(q) < 50 * 50 }

\* C27: a conflict is reported for waypoint k1 of route i and waypoint k2 of
\* route j, i < j, exactly when |time1 - time2| < 60 and the 3D distance is
\* below 50, both strict; routes whose waypoint pairs are all at least 50 m
\* apart give total_conflicts = 0; each (i, j, k1, k2) is reported once.
C27_ConflictIffCloseInTimeAndSpace ==
    Done =>
        /\ \A q \in WaypointPairs : Cardinality(ConflictsOf(q)) = (IF q \in ExpectedConflicts THEN 1 ELSE 0)
        /\ Len(report.conflicts) = Cardinality(ExpectedConflicts)
        /\ (\A q \in WaypointPairs : SquareApart(q) >= 50 * 50) => report.total_conflicts = 0

\* One waypoint pair 59 s apart is reported, one in the same place 60 s apart
\* and one at the same time exactly 50 m apart are not.
C27_Witness ==
    /\ Done
    /\ \E q \in ExpectedConflicts : TimeApart(q) = 59 /\ ConflictsOf(q) # {}
    /\ \E q \in WaypointPairs : TimeApart(q) = 60 /\ SquareApart(q) = 0 /\ ConflictsOf(q) = {}
    /\ \E q \in WaypointPairs : TimeApart(q) = 0 /\ SquareApart(q) = 50 * 50 /\ ConflictsOf(q) = {}

\* Two parallel routes 400 m apart on one schedule: no conflict.
C27_ParallelWitness ==
    /\ Done
    /\ Len(routes[1].path) = 2 /\ Len(routes[2].path) = 2
    /\ \A k \in 1..2 : routes[1].path[k].latitude = 0 /\ routes[2].path[k].latitude = 400
    /\ \A k \in 1..2 : routes[1].path[k].time = routes[2].path[k].time
    /\ report.total_conflicts = 0

\* C29: every conflict detail has a duration of at least one step that is a
\* whole number of steps, names two different aircraft, has a time_range
\* with start < end, and a min_distance with min_distance^2 < 50^2 + 30^2
\* that is not larger than the 3D distance of an in-conflict sample.
C29_DetailInvariants ==
    Returned =>
        /\ Len(ntsc_result.conflict_details) = Len(ConflictEntries)
        /\ \A n \in 1..Len(ntsc_result.conflict_details) :
              /\ ntsc_result.conflict_details[n].duration >= time_step
              /\ ntsc_result.conflict_details[n].duration % time_step = 0
              /\ ntsc_result.conflict_details[n].aircraft_pair[1] # ntsc_result.conflict_details[n].aircraft_pair[2]
              /\ ntsc_result.conflict_details[n].time_range[1] < ntsc_result.conflict_details[n].time_range[2]
              /\ ntsc_result.conflict_details[n].min_distance.den > 0
              /\ ntsc_result.conflict_details[n].min_distance.sq
                   < (HORIZONTAL_SEPARATION * HORIZONTAL_SEPARATION + VERTICAL_SEPARATION * VERTICAL_SEPARATION)
                       * ntsc_result.conflict_details[n].min_distance.den * ntsc_result.conflict_details[n].min_distance.den
              /\ \E m \in 1..Len(ConflictEntries[n].samples) :
                    /\ ConflictEntries[n].samples[m].counted
                    /\ ntsc_result.conflict_details[n].min_distance.sq <= SampleSq(ConflictEntries[n].samples[m])

\* A detail of exactly one step whose min_distance is 30 m or more.
C29_Witness ==
    /\ Returned
    /\ \E n \in 1..Len(ntsc_result.conflict_details) :
          /\ ntsc_result.conflict_details[n].duration = time_step
          /\ ntsc_result.conflict_details[n].min_distance.sq
               >= 30 * 30 * ntsc_result.conflict_details[n].min_distance.den * ntsc_result.conflict_details[n].min_distance.den

\* The length of the overlap window of a sampled pair, in ticks.
WindowLength(entry) == entry.overlap_end - entry.overlap_start

\* Every sample of the pair is in conflict, as it is when the pair is in
\* conflict throughout the window.
InConflictThroughout(entry) ==
    \A m \in 1..Len(entry.samples) : entry.samples[m].counted

C26_ShortWindowWitness ==
    /\ Returned
    /\ \E k \in 1..Len(ntsc_trace) :
          /\ WindowLength(ntsc_trace[k]) < time_step
          /\ Len(ntsc_trace[k].samples) = 1
          /\ ntsc_trace[k].conflict_duration = time_step

(***************************************************************************)
(* Specification of two calls of calculate_ntsc: on a segment and a        *)
(* segment of another aircraft, and on the same input with the first       *)
(* segment split in two at an intermediate time                            *)
(***************************************************************************)
\* The position of the segment at time t, where its coordinates are whole.
PositionAt(seg, t) ==
    [longitude |-> InterpolatePosition(seg, t).longitude \div InterpolatePosition(seg, t).den,
     latitude |-> InterpolatePosition(seg, t).latitude \div InterpolatePosition(seg, t).den,
     height |-> InterpolatePosition(seg, t).height \div InterpolatePosition(seg, t).den]

WholePositionAt(seg, t) ==
    /\ InterpolatePosition(seg, t).longitude % InterpolatePosition(seg, t).den = 0
    /\ InterpolatePosition(seg, t).latitude % InterpolatePosition(seg, t).den = 0
    /\ InterpolatePosition(seg, t).height % InterpolatePosition(seg, t).den = 0

\* Two consecutive segments of the same aircraft with the motion of seg.
SplitAt(seg, t) ==
    << [start_time |-> seg.start_time, end_time |-> t, start_pos |-> seg.start_pos,
        end_pos |-> PositionAt(seg, t), aircraft_id |-> seg.aircraft_id],
       [start_time |-> t, end_time |-> seg.end_time, start_pos |-> PositionAt(seg, t),
        end_pos |-> seg.end_pos, aircraft_id |-> seg.aircraft_id] >>

\* Windows of 2 s and of 4/3 s, in ticks.
SplitWindows == {<<0, 6>>, <<0, 4>>}

OtherWindows == {<<0, 6>>, <<1, 5>>, <<0, 4>>}

SplitInputs ==
    { g \in [segment : { [start_time |-> w[1], end_time |-> w[2], start_pos |-> p, end_pos |-> q, aircraft_id |-> "UAV-1"] :
                           w \in SplitWindows, p \in Positions, q \in Positions },
             time : 1..5,
             other : { [start_time |-> w[1], end_time |-> w[2], start_pos |-> p, end_pos |-> q, aircraft_id |-> "UAV-2"] :
                         w \in OtherWindows, p \in Positions, q \in Positions }] :
        /\ g.segment.start_time < g.time
        /\ g.time < g.segment.end_time
        /\ WholePositionAt(g.segment, g.time) }

InitSplit ==
    /\ pc = "start"
    /\ split_given \in SplitInputs
    /\ split_results = <<>>
    /\ NtscIdle /\ LevelIdle /\ RiskIdle /\ SeverityIdle /\ RouteIdle /\ InterpIdle /\ CapacityIdle /\ ThreadIdle /\ PermIdle /\ ProbIdle /\ SafetyIdle /\ MatrixIdle /\ MetricsIdle /\ HavIdle /\ SamplingIdle

ApplySplitCalls ==
    /\ pc = "start"
    /\ pc' = "done"
    /\ split_results' = <<CalculateNtscRun(<<split_given.segment, split_given.other>>).result,
                          CalculateNtscRun(SplitAt(split_given.segment, split_given.time) \o <<split_given.other>>).result>>
    /\ UNCHANGED <<split_given, ntsc_vars, level_vars, risk_vars, severity_vars, route_vars, interp_vars, capacity_vars, thread_vars, perm_vars, prob_vars, safety_vars, matrix_vars, metrics_vars, hav_vars, sampling_vars>>

NextSplit == ApplySplitCalls

SpecSplit == InitSplit /\ [][NextSplit]_vars

\* C30: replacing a segment by two consecutive segments of the same aircraft
\* with the same motion leaves total_conflict_time unchanged.
C30_SplitKeepsConflictTime ==
    Done => split_results[1].total_conflict_time = split_results[2].total_conflict_time

\* The total flight time is unchanged by the split.
SplitKeepsFlightTime ==
    Done => split_results[1].total_flight_time = split_results[2].total_flight_time

\* Two aircraft in one place for 2 s, the first split after 1 s: the instant
\* of the split is sampled for both parts, 4 s of conflict in place of 3 s.
SplitCountsTwice ==
    /\ Done
    /\ split_given.segment.start_time = 0 /\ split_given.segment.end_time = 2 * time_step
    /\ split_given.time = time_step
    /\ split_results[1].total_conflict_time = 3 * time_step
    /\ split_results[2].total_conflict_time = 4 * time_step

(***************************************************************************)
(* Specification of the while loop of _calculate_conflict_duration, one    *)
(* iteration a step, with t a float: t = overlap_start;                    *)
(* while t <= overlap_end: ...; t += time_step.  The body of the loop      *)
(* reads t and assigns neither t nor overlap_end.                          *)
(***************************************************************************)
MaxSamples == 8

\* time_step = 1.0
TimeStepFloat == Rat(1)

\* Times in quarters of a second up to four steps past the first float whose
\* successor is more than one step away, each rounded to a float.
SamplingTimes == { Float(n, 4) : n \in 0..(4 * (Pow2(MantissaBits) + 4)) }

SamplingWindows == { w \in SamplingTimes \X SamplingTimes : RatLess(w[1], w[2]) }

\* t <= overlap_end
LoopCondition == ~RatLess(sampling_window[2], sampling_t)

InitSampling ==
    /\ pc = "start"
    /\ sampling_window \in SamplingWindows
    /\ sampling_t = <<>>
    /\ sampling_count = 0
    /\ NtscIdle /\ LevelIdle /\ RiskIdle /\ SeverityIdle /\ RouteIdle /\ InterpIdle /\ CapacityIdle /\ ThreadIdle /\ PermIdle /\ ProbIdle /\ SafetyIdle /\ MatrixIdle /\ MetricsIdle /\ HavIdle /\ SplitIdle

\* t = overlap_start
SampleEnter ==
    /\ pc = "start"
    /\ pc' = "loop"
    /\ sampling_t' = sampling_window[1]
    /\ UNCHANGED <<sampling_window, sampling_count, ntsc_vars, level_vars, risk_vars, severity_vars, route_vars, interp_vars, capacity_vars, thread_vars, perm_vars, prob_vars, safety_vars, matrix_vars, metrics_vars, hav_vars, split_vars>>

\* One iteration: the sample at t, then t += time_step.  The count stays at
\* MaxSamples once it is there.
SampleStep ==
    /\ pc = "loop"
    /\ LoopCondition
    /\ sampling_t' = FloatAdd(sampling_t, TimeStepFloat)
    /\ sampling_count' = IF sampling_count < MaxSamples THEN sampling_count + 1 ELSE sampling_count
    /\ UNCHANGED <<pc, sampling_window, ntsc_vars, level_vars, risk_vars, severity_vars, route_vars, interp_vars, capacity_vars, thread_vars, perm_vars, prob_vars, safety_vars, matrix_vars, metrics_vars, hav_vars, split_vars>>

\* The loop condition fails: return conflict_duration, min_distance.
SampleReturn ==
    /\ pc = "loop"
    /\ ~LoopCondition
    /\ pc' = "done"
    /\ UNCHANGED <<sampling_window, sampling_t, sampling_count, ntsc_vars, level_vars, risk_vars, severity_vars, route_vars, interp_vars, capacity_vars, thread_vars, perm_vars, prob_vars, safety_vars, matrix_vars, metrics_vars, hav_vars, split_vars>>

NextSampling == SampleEnter \/ SampleStep \/ SampleReturn

SpecSampling == InitSampling /\ [][NextSampling]_vars

\* The interpreter runs the loop on: every step that changes the state is
\* taken in the end.
FairSpecSampling == SpecSampling /\ WF_vars(NextSampling)

\* floor(overlap_end - overlap_start) + 1
ClaimedSamples ==
    ((sampling_window[2].num * sampling_window[1].den - sampling_window[1].num * sampling_window[2].den)
        \div (sampling_window[1].den * sampling_window[2].den)) + 1

\* C28: for every segment pair with overlap_start < overlap_end the loop
\* takes floor(overlap_end - overlap_start) + 1 samples and then terminates.
C28_SamplingTerminates ==
    <>(Done /\ sampling_count = ClaimedSamples)

\* The loop never returns before t has passed overlap_end.
SamplingReturnsPastEnd ==
    Done => RatLess(sampling_window[2], sampling_t)

\* overlap_end is below the first float whose successor is more than one
\* step away.
WindowBelowLimit ==
    pc = "start" /\ RatLess(sampling_window[2], Rat(Pow2(MantissaBits)))

\* The loop of such a window is left in the end.
BoundedWindowTerminates == WindowBelowLimit ~> Done

\* t += 1.0 leaves t as it is: the float after t is more than one step away.
SamplingStuck ==
    /\ pc = "loop"
    /\ LoopCondition
    /\ FloatAdd(sampling_t, TimeStepFloat) = sampling_t
    /\ sampling_count = MaxSamples

\* A loop that returned with more samples than floor(end - start) + 1.
SamplingExtraSample ==
    /\ Done
    /\ sampling_count > ClaimedSamples

====
